---- MODULE Spec2Model ----
(***************************************************************************)
(* A model of the pronto compiler's code generator (src/compiler/codegen.ts)*)
(* together with the top level of the AST transformer (src/compiler/ast.ts).*)
(*                                                                          *)
(* Text is modelled as a sequence of lexical tokens: string concatenation   *)
(* becomes \o, and white space (new lines, indentation, the blank lines     *)
(* between declaration blocks) carries no token.  The runtime prelude,      *)
(* which generate reads from runtime.js, is the single token Prelude.       *)
(***************************************************************************)
EXTENDS Integers, Sequences, FiniteSets, TLC

(***************************************************************************)
(* AST nodes (src/compiler/ast.ts).  `undefined` stands for an absent       *)
(* optional field.                                                          *)
(***************************************************************************)
undefined == [type |-> "undefined"]

Identifier(n) == [type |-> "Identifier", name |-> n]

StringLiteral(v) == [type |-> "StringLiteral", value |-> v]

NumberLiteral(v) == [type |-> "NumberLiteral", value |-> v]

BooleanLiteral(v) == [type |-> "BooleanLiteral", value |-> v]

FunctionCall(c, args) ==
    [type |-> "FunctionCall", callee |-> Identifier(c), arguments |-> args]

MethodCall(o, m, args) ==
    [type |-> "MethodCall", object |-> o, method |-> Identifier(m),
     arguments |-> args]

MemberExpression(o, p) ==
    [type |-> "MemberExpression", object |-> o, property |-> Identifier(p)]

Property(k, v) == [key |-> Identifier(k), value |-> v, shorthand |-> FALSE]

ShorthandProperty(k) ==
    [key |-> Identifier(k), value |-> undefined, shorthand |-> TRUE]

ObjectLiteral(props) == [type |-> "ObjectLiteral", properties |-> props]

ArrayLiteral(elems) == [type |-> "ArrayLiteral", elements |-> elems]

ComparisonExpression(op, l, r) ==
    [type |-> "ComparisonExpression", operator |-> op, left |-> l, right |-> r]

LogicalExpression(op, l, r) ==
    [type |-> "LogicalExpression", operator |-> op, left |-> l, right |-> r]

UnaryExpression(a) ==
    [type |-> "UnaryExpression", operator |-> "not", argument |-> a]

ReturnStatement(e) == [type |-> "ReturnStatement", expression |-> e]

IfStatement(c, b) == [type |-> "IfStatement", condition |-> c, body |-> b]

ForStatement(v, it, b) ==
    [type |-> "ForStatement", variable |-> Identifier(v), iterable |-> it,
     body |-> b]

LoopStatement(b) == [type |-> "LoopStatement", body |-> b]

Assignment(l, r) ==
    [type |-> "Assignment", left |-> Identifier(l), right |-> r]

DestructuringAssignment(ls, r) ==
    [type |-> "DestructuringAssignment",
     left |-> [i \in 1..Len(ls) |-> Identifier(ls[i])], right |-> r]

ExpressionStatement(e) == [type |-> "ExpressionStatement", expression |-> e]

Parameter(n, t) == [type |-> "Parameter", name |-> Identifier(n), paramType |-> t]

FlowDefinition(n, params, b) ==
    [type |-> "FlowDefinition", name |-> Identifier(n),
     parameters |-> [i \in 1..Len(params) |-> Parameter(params[i], "any")],
     body |-> b]

\* input and returns stand for the JSON text of the two type objects
PromptImport(n, p, in, out) ==
    [type |-> "PromptImport", promptPath |-> p, name |-> Identifier(n),
     input |-> in, returns |-> out]

SymbolImport(symbols, from) ==
    [type |-> "SymbolImport",
     symbols |-> [i \in 1..Len(symbols) |-> Identifier(symbols[i])],
     from |-> from]

ImportStatement(kind, node) ==
    [type |-> "ImportStatement", importType |-> kind,
     promptImport |-> IF kind = "prompt" THEN node ELSE undefined,
     symbolImport |-> IF kind = "symbol" THEN node ELSE undefined]

Program(b) == [type |-> "Program", body |-> b]

(***************************************************************************)
(* Results of a generator method: the text it returns, or the Error it      *)
(* throws.  calls is the trace of the function calls emitted on the way:    *)
(* one entry per completed invocation of generateFunctionCall or            *)
(* generateAsyncCall, with the node, the method and the text returned.      *)
(***************************************************************************)
Returns(code, calls) ==
    [ok |-> TRUE, code |-> code, error |-> <<>>, calls |-> calls]

Throws(msg) == [ok |-> FALSE, code |-> <<>>, error |-> msg, calls |-> <<>>]

CallEntry(node, via, code) == [call |-> node, via |-> via, code |-> code]

Max(S) == CHOOSE m \in S : \A k \in S : k <= m

\* Number.prototype.toString on the literals the model uses
NumberToString(n) ==
    CASE n = 0 -> "0" [] n = 1 -> "1" [] n = 2 -> "2" [] n = 3 -> "3"
      [] n = 4 -> "4" [] n = 5 -> "5" [] n = 6 -> "6" [] n = 7 -> "7"
      [] n = 8 -> "8" [] n = 9 -> "9" [] OTHER -> "NaN"

builtinFunctions == {"print", "stringify", "parse"}

\* A result followed by a second one, the separator sep between their texts;
\* the second is not computed when the first throws
Cat(h, sep, t) ==
    IF ~h.ok THEN h
    ELSE IF ~t.ok THEN t
    ELSE Returns(h.code \o sep \o t.code, h.calls \o t.calls)

\* A template literal around one generated text
Wrap(pre, r, post) ==
    IF ~r.ok THEN r ELSE Returns(pre \o r.code \o post, r.calls)

\* The return of a call generator, entered in the trace of emitted calls
Emitted(node, via, r) ==
    IF ~r.ok THEN r
    ELSE Returns(r.code, r.calls \o <<CallEntry(node, via, r.code)>>)

Comma(rest) == IF rest = <<>> THEN <<>> ELSE <<",">>

RECURSIVE generateNode(_, _)
RECURSIVE generateList(_, _)
RECURSIVE generateProperties(_, _)
RECURSIVE extractArgs(_, _, _, _)

\* args.map(arg => this.generateNode(arg)).join(', ')
generateList(es, g) ==
    IF es = <<>> THEN Returns(<<>>, <<>>)
    ELSE Cat(generateNode(es[1], g), Comma(Tail(es)),
             generateList(Tail(es), g))

\* propsMap.get(paramName): the last property with that key, or undefined
propsMapGet(props, paramName) ==
    LET at == {i \in 1..Len(props) : props[i].key.name = paramName} IN
    IF at = {} THEN undefined ELSE props[Max(at)]

\* prop.value || prop.key
valueOrKey(prop) == IF prop.value # undefined THEN prop.value ELSE prop.key

\* paramNames.map(paramName => ...).join(', ')
extractArgs(paramNames, props, callee, g) ==
    IF paramNames = <<>> THEN Returns(<<>>, <<>>)
    ELSE IF propsMapGet(props, paramNames[1]) = undefined
    THEN Throws(<<"Missing required parameter", paramNames[1],
                  "in call to flow", callee>>)
    ELSE Cat(generateNode(valueOrKey(propsMapGet(props, paramNames[1])), g),
             Comma(Tail(paramNames)),
             extractArgs(Tail(paramNames), props, callee, g))

generateIdentifier(id) == Returns(<<id.name>>, <<>>)

generateStringLiteral(str) == Returns(<<"\"", str.value, "\"">>, <<>>)

generateNumberLiteral(num) == Returns(<<NumberToString(num.value)>>, <<>>)

generateBooleanLiteral(bool) ==
    Returns(<<IF bool.value THEN "true" ELSE "false">>, <<>>)

\* this.flowParameters.get(callee) || []
flowParametersGet(g, callee) ==
    IF callee \in DOMAIN g.flowParameters THEN g.flowParameters[callee]
    ELSE <<>>

\* Mutant of promptCall: every written argument is passed on
promptCallAllArguments(fc, callee, g) ==
    Wrap(<<"await", callee, "(">>, generateList(fc.arguments, g), <<")">>)

\* The prompt branch, the same text in both call generators
promptCall(fc, callee, g) ==
    IF Len(fc.arguments) = 0
    THEN Returns(<<"await", callee, "(", "{}", ")">>, <<>>)
    ELSE Wrap(<<"await", callee, "(">>, generateNode(fc.arguments[1], g),
              <<")">>)

\* The flow branch, the same text in both call generators
flowCall(fc, callee, g) ==
    IF Len(fc.arguments) = 0
    THEN Returns(<<"await", callee, "(", ")">>, <<>>)
    ELSE IF Len(fc.arguments) = 1 /\ fc.arguments[1].type = "ObjectLiteral"
    THEN Wrap(<<"await", callee, "(">>,
              extractArgs(flowParametersGet(g, callee),
                          fc.arguments[1].properties, callee, g),
              <<")">>)
    ELSE Wrap(<<"await", callee, "(">>, generateList(fc.arguments, g), <<")">>)

isAsyncCall(expr, g) ==
    /\ expr.type = "FunctionCall"
    /\ \/ expr.callee.name \in DOMAIN g.importedPrompts
       \/ expr.callee.name \in g.definedFlows

generateAsyncCall(expr, g) ==
    Emitted(expr, "generateAsyncCall",
        IF expr.callee.name \in DOMAIN g.importedPrompts
        THEN promptCall(expr, expr.callee.name, g)
        ELSE IF expr.callee.name \in g.definedFlows
        THEN flowCall(expr, expr.callee.name, g)
        ELSE Wrap(<<"await", expr.callee.name, "(">>,
                  generateList(expr.arguments, g), <<")">>))

\* Mutant of generateFunctionCall: the builtin check comes before the flow
\* check
generateFunctionCallBuiltinFirst(funcCall, g) ==
    Emitted(funcCall, "generateFunctionCall",
        IF funcCall.callee.name \in DOMAIN g.importedPrompts
        THEN promptCall(funcCall, funcCall.callee.name, g)
        ELSE IF funcCall.callee.name \in builtinFunctions
        THEN Wrap(<<"_builtins", ".", funcCall.callee.name, "(">>,
                  generateList(funcCall.arguments, g), <<")">>)
        ELSE IF funcCall.callee.name \in g.definedFlows
        THEN flowCall(funcCall, funcCall.callee.name, g)
        ELSE Wrap(<<funcCall.callee.name, "(">>,
                  generateList(funcCall.arguments, g), <<")">>))

generateFunctionCall(funcCall, g) ==
    Emitted(funcCall, "generateFunctionCall",
        IF funcCall.callee.name \in DOMAIN g.importedPrompts
        THEN promptCall(funcCall, funcCall.callee.name, g)
        ELSE IF funcCall.callee.name \in g.definedFlows
        THEN flowCall(funcCall, funcCall.callee.name, g)
        ELSE IF funcCall.callee.name \in builtinFunctions
        THEN Wrap(<<"_builtins", ".", funcCall.callee.name, "(">>,
                  generateList(funcCall.arguments, g), <<")">>)
        ELSE Wrap(<<funcCall.callee.name, "(">>,
                  generateList(funcCall.arguments, g), <<")">>))

\* obj.properties.map(prop => ...).join(', ')
generateProperties(props, g) ==
    IF props = <<>> THEN Returns(<<>>, <<>>)
    ELSE Cat(IF props[1].shorthand THEN generateNode(props[1].key, g)
             ELSE Wrap(<<props[1].key.name, ":">>,
                       generateNode(props[1].value, g), <<>>),
             Comma(Tail(props)),
             generateProperties(Tail(props), g))

generateObjectLiteral(obj, g) ==
    IF Len(obj.properties) = 0 THEN Returns(<<"{}">>, <<>>)
    ELSE Wrap(<<"{">>, generateProperties(obj.properties, g), <<"}">>)

generateArrayLiteral(array, g) ==
    IF Len(array.elements) = 0 THEN Returns(<<"[]">>, <<>>)
    ELSE Wrap(<<"[">>, generateList(array.elements, g), <<"]">>)

generateMemberExpression(memberExpr, g) ==
    Wrap(<<>>, generateNode(memberExpr.object, g),
         <<".", memberExpr.property.name>>)

generateMethodCall(methodCall, g) ==
    Wrap(<<>>,
         Cat(generateNode(methodCall.object, g),
             <<".", methodCall.method.name, "(">>,
             generateList(methodCall.arguments, g)),
         <<")">>)

generateComparisonExpression(comp, g) ==
    Cat(generateNode(comp.left, g), <<comp.operator>>,
        generateNode(comp.right, g))

generateLogicalExpression(logical, g) ==
    Cat(generateNode(logical.left, g),
        <<IF logical.operator = "and" THEN "&&" ELSE "||">>,
        generateNode(logical.right, g))

generateUnaryExpression(unary, g) ==
    Wrap(<<"!">>, generateNode(unary.argument, g), <<>>)

\* The expression cases of generateNode; statements and declarations are
\* generated by the actions below.
generateNode(node, g) ==
    CASE node.type = "FunctionCall" -> generateFunctionCall(node, g)
      [] node.type = "MethodCall" -> generateMethodCall(node, g)
      [] node.type = "ObjectLiteral" -> generateObjectLiteral(node, g)
      [] node.type = "ArrayLiteral" -> generateArrayLiteral(node, g)
      [] node.type = "MemberExpression" -> generateMemberExpression(node, g)
      [] node.type = "Identifier" -> generateIdentifier(node)
      [] node.type = "StringLiteral" -> generateStringLiteral(node)
      [] node.type = "NumberLiteral" -> generateNumberLiteral(node)
      [] node.type = "BooleanLiteral" -> generateBooleanLiteral(node)
      [] node.type = "ComparisonExpression" ->
             generateComparisonExpression(node, g)
      [] node.type = "LogicalExpression" -> generateLogicalExpression(node, g)
      [] node.type = "UnaryExpression" -> generateUnaryExpression(node, g)
      [] OTHER -> Throws(<<"Unsupported node type", node.type>>)

(***************************************************************************)
(* The generator instance: the fields of class CodeGenerator.               *)
(* importedPrompts, importedSymbols and flowParameters are Maps (functions  *)
(* on their key set), definedFlows and declaredVariables are Sets.          *)
(***************************************************************************)
EmptyMap == [k \in {} |-> undefined]

MapSet(map, k, v) ==
    [n \in DOMAIN map \cup {k} |-> IF n = k THEN v ELSE map[n]]

NewCodeGenerator ==
    [importedPrompts |-> EmptyMap,
     importedSymbols |-> EmptyMap,
     definedFlows |-> {},
     hasMainFlow |-> FALSE,
     declaredVariables |-> {},
     flowParameters |-> EmptyMap]

\* Mutant of resetState: the set of defined flows is not cleared
resetStateKeepFlows(g) ==
    [g EXCEPT !.hasMainFlow = FALSE,
              !.importedPrompts = EmptyMap,
              !.importedSymbols = EmptyMap,
              !.declaredVariables = {}]

\* The "Reset state" block at the head of generate
resetState(g) ==
    [g EXCEPT !.hasMainFlow = FALSE,
              !.importedPrompts = EmptyMap,
              !.importedSymbols = EmptyMap,
              !.declaredVariables = {},
              !.definedFlows = {}]

paramNamesOf(flow) ==
    [k \in 1..Len(flow.parameters) |-> flow.parameters[k].name.name]

\* Mutant of collectDefinedFlows: no registry pass
collectNoFlows(body, g) == g

RECURSIVE collectDefinedFlows(_, _)
collectDefinedFlows(body, g) ==
    IF body = <<>> THEN g
    ELSE LET node == body[1] IN
         collectDefinedFlows(Tail(body),
             IF node.type = "FlowDefinition"
             THEN [g EXCEPT
                     !.definedFlows = @ \cup {node.name.name},
                     !.flowParameters =
                         MapSet(@, node.name.name, paramNamesOf(node))]
             ELSE g)

(***************************************************************************)
(* ASTTransformer.transform: the script node of the parse tree keeps its    *)
(* children under one key per rule, importStatement and flowDefinition;     *)
(* the body is all import statements followed by all flow definitions.      *)
(* The children are given here in their transformed form.                   *)
(***************************************************************************)
transform(cst) == Program(cst.importStatement \o cst.flowDefinition)

(***************************************************************************)
(* One invocation of generate: its position and local values.               *)
(*   pc      idle, collect, program, flow, done                             *)
(*   i       index of generateProgram's loop over ast.body                  *)
(*   stack   the statement loops in progress, innermost last: the loop of   *)
(*           generateFlowDefinition and those of the if/for/loop bodies     *)
(*   code    the text generated so far                                      *)
(*   result  what generate returned or threw                                *)
(*   flow    the flow definition being generated                            *)
(*   stmts   the statements generated so far for that flow, in generation   *)
(*           order, and last, the result for the latest of them             *)
(***************************************************************************)
Prelude == "<runtime.js>"

MainEpilogue == "<auto-execute Main flow>"

NoResult == [ok |-> FALSE, code |-> <<>>, error |-> <<>>, calls |-> <<>>]

IdleFrame ==
    [pc |-> "idle", ast |-> Program(<<>>), i |-> 0, stack |-> <<>>,
     code |-> <<>>, result |-> NoResult, flow |-> undefined,
     stmts |-> <<>>, last |-> NoResult]

Frame(kind, body) == [kind |-> kind, body |-> body, i |-> 1]

Top(stack) == stack[Len(stack)]

Pop(stack) == SubSeq(stack, 1, Len(stack) - 1)

\* generate throws: nothing is returned, the instance keeps its fields
Abort(g, c, res) ==
    [g |-> g,
     c |-> [c EXCEPT !.pc = "done", !.stack = <<>>, !.code = <<>>,
                     !.result = [res EXCEPT !.calls = <<>>], !.last = res]]

\* generate(ast), up to the call of collectDefinedFlows
generateBegin(g, ast) ==
    [g |-> resetState(g),
     c |-> [IdleFrame EXCEPT !.pc = "collect", !.ast = ast]]

\* collectDefinedFlows, then the runtime text is read
collectStep(g, c) ==
    [g |-> collectDefinedFlows(c.ast.body, g),
     c |-> [c EXCEPT !.pc = "program", !.i = 1, !.code = <<Prelude>>]]

generatePromptImport(promptImport, g) ==
    [g |-> [g EXCEPT !.importedPrompts =
                         MapSet(@, promptImport.name.name, promptImport)],
     code |-> <<"// Prompt import:", promptImport.name.name,
                "const", promptImport.name.name, "=", "async function(input)",
                "{", "validateType", "(", "input", ",", promptImport.input, ")",
                ";", "return", "await", "callPrompt", "(",
                promptImport.name.name, ",", promptImport.promptPath, ",",
                "validatedInput", ",", promptImport.returns, ")", ";", "}", ";",
                "_promptRegistry", "[", promptImport.name.name, "]", "=",
                promptImport.promptPath, promptImport.input,
                promptImport.returns, ";">>]

RECURSIVE setSymbols(_, _, _)
setSymbols(map, symbols, from) ==
    IF symbols = <<>> THEN map
    ELSE setSymbols(MapSet(map, symbols[1].name, from), Tail(symbols), from)

RECURSIVE joinNames(_)
joinNames(names) ==
    IF names = <<>> THEN <<>>
    ELSE <<names[1]>> \o (IF Tail(names) = <<>> THEN <<>> ELSE <<",">>)
                      \o joinNames(Tail(names))

generateSymbolImport(symbolImport, g) ==
    [g |-> [g EXCEPT !.importedSymbols =
                         setSymbols(@, symbolImport.symbols, symbolImport.from)],
     code |-> <<"import", "{">>
                \o joinNames([k \in 1..Len(symbolImport.symbols) |->
                                 symbolImport.symbols[k].name])
                \o <<"}", "from", symbolImport.from, ";">>]

generateImportStatement(importStmt, g) ==
    IF importStmt.importType = "prompt"
    THEN generatePromptImport(importStmt.promptImport, g)
    ELSE generateSymbolImport(importStmt.symbolImport, g)

\* generateProgram's loop at an import statement
importStep(g, c) ==
    LET r == generateImportStatement(c.ast.body[c.i], g) IN
    [g |-> r.g, c |-> [c EXCEPT !.code = @ \o r.code, !.i = @ + 1]]

\* Mutant of flowBeginStep: the declared names of the flow before are kept
flowBeginStepKeepDeclared(g, c) ==
    LET flow == c.ast.body[c.i]
        name == flow.name.name
    IN [g |-> [g EXCEPT
                 !.declaredVariables =
                     @ \cup {flow.parameters[k].name.name :
                                k \in 1..Len(flow.parameters)},
                 !.definedFlows = @ \cup {name},
                 !.hasMainFlow = IF name = "Main" THEN TRUE ELSE @],
        c |-> [c EXCEPT
                 !.pc = "flow", !.flow = flow, !.stmts = <<>>,
                 !.last = NoResult,
                 !.stack = <<Frame("flow", flow.body)>>,
                 !.code = @ \o <<"// Flow:", name, "async function", name, "(">>
                            \o joinNames(paramNamesOf(flow))
                            \o <<")", "{", "try", "{">>]]

\* generateFlowDefinition up to the loop over the body
flowBeginStep(g, c) ==
    LET flow == c.ast.body[c.i]
        name == flow.name.name
    IN [g |-> [g EXCEPT
                 !.declaredVariables =
                     {flow.parameters[k].name.name :
                          k \in 1..Len(flow.parameters)},
                 !.definedFlows = @ \cup {name},
                 !.hasMainFlow = IF name = "Main" THEN TRUE ELSE @],
        c |-> [c EXCEPT
                 !.pc = "flow", !.flow = flow, !.stmts = <<>>,
                 !.last = NoResult,
                 !.stack = <<Frame("flow", flow.body)>>,
                 !.code = @ \o <<"// Flow:", name, "async function", name, "(">>
                            \o joinNames(paramNamesOf(flow))
                            \o <<")", "{", "try", "{">>]]

\* The right side of a statement: awaited through generateAsyncCall when it
\* is itself a call of a prompt or a flow
generateRight(expr, g) ==
    IF isAsyncCall(expr, g) THEN generateAsyncCall(expr, g)
    ELSE generateNode(expr, g)

\* A statement generator's outcome: the instance as it leaves it, and the
\* text returned or the error thrown
Outcome(g, res) == [g |-> g, res |-> res]

generateReturnStatement(returnStmt, g) ==
    Outcome(g, Wrap(<<"return">>, generateRight(returnStmt.expression, g), <<>>))

\* The declaration check of generateAssignment, the right side generated
assign(left, right, g) ==
    IF ~right.ok THEN Outcome(g, right)
    ELSE IF left \notin g.declaredVariables
    THEN Outcome([g EXCEPT !.declaredVariables = @ \cup {left}],
                 Wrap(<<"let", left, "=">>, right, <<>>))
    ELSE Outcome(g, Wrap(<<left, "=">>, right, <<>>))

generateAssignment(assignment, g) ==
    assign(assignment.left.name, generateRight(assignment.right, g), g)

\* Mutant of destructure: the names are not recorded
destructureUntracked(names, right, g) ==
    IF ~right.ok THEN Outcome(g, right)
    ELSE Outcome(g, Wrap(<<"const", "{">> \o joinNames(names) \o <<"}", "=">>,
                         right, <<>>))

\* The tracking loop and the const form, the right side generated
destructure(names, right, g) ==
    IF ~right.ok THEN Outcome(g, right)
    ELSE Outcome([g EXCEPT !.declaredVariables =
                              @ \cup {names[k] : k \in 1..Len(names)}],
                 Wrap(<<"const", "{">> \o joinNames(names) \o <<"}", "=">>,
                      right, <<>>))

generateDestructuringAssignment(destructuring, g) ==
    destructure([k \in 1..Len(destructuring.left) |->
                    destructuring.left[k].name],
                generateRight(destructuring.right, g), g)

generateExpressionStatement(exprStmt, g) ==
    Outcome(g, generateRight(exprStmt.expression, g))

\* The opening of generateIfStatement, generateForStatement and
\* generateLoopStatement, up to the loop over the body
generateBlockHead(stmt, g) ==
    CASE stmt.type = "IfStatement" ->
           Wrap(<<"if", "(">>, generateNode(stmt.condition, g), <<")", "{">>)
      [] stmt.type = "ForStatement" ->
           Wrap(<<"for", "(", "const", stmt.variable.name, "of">>,
                generateNode(stmt.iterable, g), <<")", "{">>)
      [] OTHER -> Returns(<<"while", "(", "true", ")", "{">>, <<>>)

IsBlock(stmt) == stmt.type \in {"IfStatement", "ForStatement", "LoopStatement"}

generateStatement(stmt, g) ==
    CASE stmt.type = "ReturnStatement" -> generateReturnStatement(stmt, g)
      [] stmt.type = "Assignment" -> generateAssignment(stmt, g)
      [] stmt.type = "DestructuringAssignment" ->
             generateDestructuringAssignment(stmt, g)
      [] stmt.type = "ExpressionStatement" ->
             generateExpressionStatement(stmt, g)
      [] OTHER -> [g |-> g,
                   res |-> Throws(<<"Unsupported node type", stmt.type>>)]

\* The next statement of the innermost statement loop
NextStatement(c) == Top(c.stack).body[Top(c.stack).i]

AtStatement(c) ==
    /\ c.pc = "flow"
    /\ Top(c.stack).i <= Len(Top(c.stack).body)

Advance(stack) == [stack EXCEPT ![Len(stack)].i = @ + 1]

\* The loop body around a generated statement: code += stmtCode + ';'
afterStatement(g, c, stmt, r) ==
    IF ~r.res.ok THEN Abort(g, [c EXCEPT !.stmts = Append(@, stmt)], r.res)
    ELSE [g |-> r.g,
          c |-> [c EXCEPT !.code = @ \o r.res.code \o <<";">>,
                          !.stack = Advance(@),
                          !.stmts = Append(@, stmt),
                          !.last = r.res]]

\* One iteration of a statement loop at a return, assignment, destructuring
\* or expression statement
statementStep(g, c) ==
    afterStatement(g, c, NextStatement(c),
                   generateStatement(NextStatement(c), g))

\* The statement loop of a block statement starts after its opening
afterBlockHead(g, c, stmt, r) ==
    IF ~r.ok THEN Abort(g, [c EXCEPT !.stmts = Append(@, stmt)], r)
    ELSE [g |-> g,
          c |-> [c EXCEPT !.code = @ \o r.code,
                          !.stack = Append(Advance(@),
                                           Frame("block", stmt.body)),
                          !.stmts = Append(@, stmt),
                          !.last = r]]

\* One iteration of a statement loop at an if, for or loop statement: the
\* statement's generator opens the block and loops over its body
blockBeginStep(g, c) ==
    afterBlockHead(g, c, NextStatement(c),
                   generateBlockHead(NextStatement(c), g))

\* The body of an if, for or loop statement is exhausted: the block is
\* closed and the enclosing loop appends its ';'
blockEndStep(g, c) ==
    [g |-> g,
     c |-> [c EXCEPT !.code = @ \o <<"}", ";">>, !.stack = Pop(@)]]

\* The body of the flow is exhausted: the catch clause closes the function
flowEndStep(g, c) ==
    [g |-> g,
     c |-> [c EXCEPT
              !.pc = "program", !.i = @ + 1, !.stack = <<>>,
              !.code = @ \o <<"}", "catch (error)", "{", "console.error", "(",
                              "Error in flow", c.flow.name.name,
                              "error.message", ")", ";", "throw error", ";",
                              "}", "}">>]]

\* Mutant of epilogueStep: the epilogue is appended to every program
epilogueStepAlways(g, c) ==
    [g |-> g,
     c |-> [c EXCEPT !.pc = "done", !.code = @ \o <<MainEpilogue>>,
                     !.result = Returns(c.code \o <<MainEpilogue>>, <<>>)]]

\* generateProgram has returned: the Main epilogue, and the return
epilogueStep(g, c) ==
    LET code == c.code \o (IF g.hasMainFlow THEN <<MainEpilogue>> ELSE <<>>) IN
    [g |-> g,
     c |-> [c EXCEPT !.pc = "done", !.code = code,
                     !.result = Returns(code, <<>>)]]


(***************************************************************************)
(* The programs given to the compiler.  Names: P is a prompt, F a flow      *)
(* with the parameters x and y, h an undeclared function, print a builtin.  *)
(***************************************************************************)
MaxRuns == 2

MaxDepth == 2

MaxStmts == 2

MaxFlows == 2

SeqsUpTo(S, n) == UNION {[1..k -> S] : k \in 0..n}

x5 == Property("x", NumberLiteral(5))

yq == Property("y", StringLiteral("q"))

\* Calls of the flow F, of the prompt P, of a builtin, of an unknown name
FlowCalls ==
    {FunctionCall("F", <<ObjectLiteral(<<yq, x5>>)>>),
     FunctionCall("F", <<ObjectLiteral(<<x5, yq>>)>>),
     FunctionCall("F", <<ObjectLiteral(<<yq, ShorthandProperty("x")>>)>>),
     FunctionCall("F", <<ObjectLiteral(<<x5>>)>>),
     FunctionCall("F", <<ObjectLiteral(<<Property("x", NumberLiteral(1)), yq,
                                         x5>>)>>),
     FunctionCall("F", <<Identifier("x"), NumberLiteral(2)>>),
     FunctionCall("F", <<>>)}

PromptCalls ==
    {FunctionCall("P", <<>>),
     FunctionCall("P", <<ObjectLiteral(<<yq, ShorthandProperty("x")>>)>>),
     FunctionCall("P", <<Identifier("x")>>),
     FunctionCall("P", <<ObjectLiteral(<<>>),
                         FunctionCall("F", <<ObjectLiteral(<<x5>>)>>)>>)}

OtherCalls ==
    {FunctionCall("print", <<Identifier("x")>>),
     FunctionCall("h", <<>>),
     FunctionCall("h", <<FunctionCall("print", <<Identifier("x")>>)>>),
     FunctionCall("print", <<FunctionCall("F", <<ObjectLiteral(<<
         Property("y", FunctionCall("P", <<>>)),
         Property("x", FunctionCall("h", <<NumberLiteral(1)>>))>>)>>)>>)}

Calls == FlowCalls \cup PromptCalls \cup OtherCalls

\* The syntactic positions of a call c in a statement
Positions(c) ==
    {ReturnStatement(c),
     Assignment("r", c),
     DestructuringAssignment(<<"a", "b">>, c),
     ExpressionStatement(c),
     IfStatement(c, <<>>),
     ForStatement("i", c, <<>>),
     ExpressionStatement(FunctionCall("h", <<NumberLiteral(1), c>>)),
     ReturnStatement(MemberExpression(c, "y")),
     Assignment("r", MemberExpression(c, "y")),
     ExpressionStatement(MethodCall(c, "m", <<>>)),
     ExpressionStatement(MethodCall(Identifier("x"), "m", <<c>>)),
     IfStatement(LogicalExpression("and",
                     UnaryExpression(ComparisonExpression("==", c,
                                                          NumberLiteral(1))),
                     BooleanLiteral(TRUE)), <<>>),
     Assignment("r", ArrayLiteral(<<ObjectLiteral(<<Property("k", c)>>)>>))}

\* stmt at nesting depth d of if, for and loop bodies
RECURSIVE Nest(_, _)
Nest(stmt, d) ==
    IF d = 0 THEN stmt
    ELSE CASE d % 3 = 1 -> IfStatement(Identifier("x"), <<Nest(stmt, d - 1)>>)
           [] d % 3 = 2 ->
                  ForStatement("i", Identifier("y"), <<Nest(stmt, d - 1)>>)
           [] OTHER -> LoopStatement(<<Nest(stmt, d - 1)>>)

\* Every call as the right side of an assignment, the calls of F and P also
\* in every position and at every depth
CallStatements ==
    {Assignment("r", c) : c \in Calls}
      \cup UNION {Positions(c) \cup {Nest(Assignment("r", c), d) : d \in 1..MaxDepth} :
                     c \in {FunctionCall("F", <<ObjectLiteral(<<yq, x5>>)>>),
                            FunctionCall("F", <<ObjectLiteral(<<x5>>)>>),
                            FunctionCall("P", <<>>)}}
      \cup {Nest(ExpressionStatement(FunctionCall("print", <<Identifier("x")>>)),
                 d) : d \in 0..MaxDepth}

promptP == ImportStatement("prompt", PromptImport("P", "p.njk", "{in}", "{out}"))

promptF == ImportStatement("prompt", PromptImport("F", "f.njk", "{in}", "{out}"))

promptMain ==
    ImportStatement("prompt", PromptImport("Main", "m.njk", "{in}", "{out}"))

symbolsH == ImportStatement("symbol", SymbolImport(<<"h", "Main">>, "./h.js"))

Cst(imports, flows) == [importStatement |-> imports, flowDefinition |-> flows]

\* One calling flow with the statement s: F and P undeclared; F declared
\* before its caller; F declared after it; F a prompt and a flow; print a
\* flow; F a prompt only
CallContexts(s) ==
    {Cst(<<>>, <<FlowDefinition("G", <<"x">>, <<s>>)>>),
     Cst(<<promptP>>, <<FlowDefinition("F", <<"x", "y">>, <<>>),
                        FlowDefinition("G", <<"x">>, <<s>>)>>),
     Cst(<<promptP>>, <<FlowDefinition("Main", <<>>, <<s>>),
                        FlowDefinition("F", <<"y", "x">>, <<>>)>>),
     Cst(<<symbolsH, promptF>>, <<FlowDefinition("F", <<"x", "y">>, <<>>),
                                  FlowDefinition("G", <<"x">>, <<s>>)>>),
     Cst(<<promptP>>, <<FlowDefinition("print", <<"x">>, <<>>),
                        FlowDefinition("G", <<"x">>, <<s>>)>>),
     Cst(<<promptF>>, <<FlowDefinition("G", <<"x">>, <<s>>)>>)}

CallPrograms == UNION {CallContexts(s) : s \in CallStatements}

\* Assignments and destructurings of x and y, also inside a block
ScopeStatements ==
    {Assignment("x", NumberLiteral(1)),
     Assignment("y", Identifier("x")),
     DestructuringAssignment(<<"x", "y">>, FunctionCall("h", <<>>)),
     IfStatement(Identifier("c"), <<Assignment("x", NumberLiteral(2))>>)}

\* A flow with and without the parameter x, alone or after a flow that has
\* bound x and y
ScopePrograms ==
    {Cst(<<>>, first \o <<FlowDefinition("G", params, body)>>) :
        first \in {<<>>,
                   <<FlowDefinition("H", <<"x">>,
                        <<LoopStatement(<<DestructuringAssignment(<<"y">>,
                                              Identifier("o"))>>),
                          Assignment("x", NumberLiteral(1))>>)>>},
        params \in {<<>>, <<"x">>},
        body \in SeqsUpTo(ScopeStatements, MaxStmts)}

\* Flows named Main, main and G in every order, with and without an import
\* of the name Main
MainPrograms ==
    {Cst(imports, flows) :
        imports \in {<<>>, <<promptMain>>, <<symbolsH>>},
        flows \in SeqsUpTo({FlowDefinition("Main", <<>>, <<>>),
                            FlowDefinition("main", <<>>, <<>>),
                            FlowDefinition("G", <<"x">>,
                                <<ReturnStatement(Identifier("x"))>>)},
                           MaxFlows)}

Programs == CallPrograms \cup ScopePrograms \cup MainPrograms

\* The script rule: the parse tree holds the import statements and the flow
\* definitions of a source text as two lists, each in source order
RECURSIVE childrenOf(_, _)
childrenOf(decls, type) ==
    IF decls = <<>> THEN <<>>
    ELSE (IF decls[1].type = type THEN <<decls[1]>> ELSE <<>>)
           \o childrenOf(Tail(decls), type)

script(decls) ==
    Cst(childrenOf(decls, "ImportStatement"),
        childrenOf(decls, "FlowDefinition"))

\* Source texts with a flow definition written before an import statement
MixedSources ==
    {<<FlowDefinition("G", <<"x">>, <<ReturnStatement(Identifier("x"))>>),
       promptP>>,
     <<FlowDefinition("Main", <<>>, <<>>), symbolsH,
       FlowDefinition("G", <<"x">>, <<>>)>>,
     <<promptP, FlowDefinition("G", <<"x">>, <<>>), promptF>>}

\* A source text with two prompt imports of one name
CollidingSources ==
    {<<promptP,
       ImportStatement("prompt", PromptImport("P", "q.njk", "{in}", "{out}")),
       FlowDefinition("G", <<"x">>,
           <<ExpressionStatement(FunctionCall("P", <<>>))>>)>>}

\* The declarations of a source text, in the order written
Sources ==
    {cst.importStatement \o cst.flowDefinition : cst \in Programs}
      \cup MixedSources \cup CollidingSources

(***************************************************************************)
(* The state: one generator instance, the invocation of generate in         *)
(* progress on it, and the number of invocations so far.                    *)
(***************************************************************************)
VARIABLES gen, frame, runs, source, compiler, lexer, parser, logic, validation,
          runtime, expression

vars == <<gen, frame, runs, source, compiler, lexer, parser, logic, validation,
          runtime, expression>>

\* The variables of the generator, and those of the other units
generatorVars == <<gen, frame, runs, source>>

otherVars ==
    <<compiler, lexer, parser, logic, validation, runtime, expression>>

\* No logical expression is being compiled
NoLogic == [pc |-> "idle", operands |-> <<>>, operators |-> <<>>,
            cst |-> <<>>, ast |-> undefined, js |-> <<>>, env |-> <<>>,
            value |-> FALSE]

\* The statement rule has not been entered
NoParser == [pc |-> "idle", tokens |-> <<>>, i |-> 0, braceCount |-> 0,
             rounds |-> 0, gate |-> "not called", alternative |-> ""]

\* tokenize has not been called
NoLexer == [pc |-> "idle", text |-> <<>>, offset |-> 1, tokens |-> <<>>,
            errors |-> <<>>]

\* compile has not been called
NoCompile ==
    [pc |-> "idle", source |-> <<>>, outputPath |-> "null", dirs |-> {},
     lexErrors |-> 0, parserErrors |-> 0, threw |-> "",
     ast |-> Program(<<>>), jsCode |-> <<>>, log |-> <<>>, files |-> {},
     exitCode |-> 0]

\* No error is in flight; an error value is in flight.
NoError == [thrown |-> FALSE]
Thrown(error) == [thrown |-> TRUE, error |-> error]

\* No emitted program is running.
NoRuntime ==
    [pc |-> "idle", stack |-> <<>>, input |-> undefined,
     inputType |-> undefined, validated |-> undefined, called |-> FALSE,
     calls |-> <<>>, raised |-> NoError, origin |-> NoError, depth |-> 0,
     log |-> <<>>, outcome |-> undefined]

\* No validation is in progress.
NoValidation ==
    [pc |-> "idle", data |-> undefined, schema |-> undefined,
     result |-> undefined]

\* No expression is being compiled.
NoExpression ==
    [pc |-> "idle", source |-> undefined, parsed |-> undefined,
     ast |-> undefined, js |-> <<>>]

Init ==
    /\ expression = NoExpression
    /\ validation = NoValidation
    /\ runtime = NoRuntime
    /\ gen = NewCodeGenerator
    /\ frame = IdleFrame
    /\ runs = 0
    /\ source = <<>>
    /\ compiler = NoCompile
    /\ lexer = NoLexer
    /\ parser = NoParser
    /\ logic = NoLogic

Becomes(n) == gen' = n.g /\ frame' = n.c

\* compile: the source text is parsed, the parse tree is transformed and
\* given to generate
Generate(decls) ==
    /\ frame.pc = "idle"
    /\ runs < MaxRuns
    /\ Becomes(generateBegin(gen, transform(script(decls))))
    /\ runs' = runs + 1
    /\ source' = decls
    /\ UNCHANGED otherVars

CollectDefinedFlows ==
    /\ frame.pc = "collect"
    /\ Becomes(collectStep(gen, frame))
    /\ UNCHANGED <<runs, source, otherVars>>

AtNode(c, type) ==
    /\ c.pc = "program"
    /\ c.i <= Len(c.ast.body)
    /\ c.ast.body[c.i].type = type

GenerateImportStatement ==
    /\ AtNode(frame, "ImportStatement")
    /\ Becomes(importStep(gen, frame))
    /\ UNCHANGED <<runs, source, otherVars>>

GenerateFlowDefinition ==
    /\ AtNode(frame, "FlowDefinition")
    /\ Becomes(flowBeginStep(gen, frame))
    /\ UNCHANGED <<runs, source, otherVars>>

GenerateStatement ==
    /\ AtStatement(frame)
    /\ ~IsBlock(NextStatement(frame))
    /\ Becomes(statementStep(gen, frame))
    /\ UNCHANGED <<runs, source, otherVars>>

BeginBlock ==
    /\ AtStatement(frame)
    /\ IsBlock(NextStatement(frame))
    /\ Becomes(blockBeginStep(gen, frame))
    /\ UNCHANGED <<runs, source, otherVars>>

EndBlock ==
    /\ frame.pc = "flow"
    /\ ~AtStatement(frame)
    /\ Top(frame.stack).kind = "block"
    /\ Becomes(blockEndStep(gen, frame))
    /\ UNCHANGED <<runs, source, otherVars>>

EndFlowDefinition ==
    /\ frame.pc = "flow"
    /\ ~AtStatement(frame)
    /\ Top(frame.stack).kind = "flow"
    /\ Becomes(flowEndStep(gen, frame))
    /\ UNCHANGED <<runs, source, otherVars>>

Epilogue ==
    /\ frame.pc = "program"
    /\ frame.i > Len(frame.ast.body)
    /\ Becomes(epilogueStep(gen, frame))
    /\ UNCHANGED <<runs, source, otherVars>>

\* generate has returned or thrown; its locals are gone
Return ==
    /\ frame.pc = "done"
    /\ frame' = IdleFrame
    /\ source' = <<>>
    /\ UNCHANGED <<gen, runs, otherVars>>

Next ==
    \/ \E decls \in Sources : Generate(decls)
    \/ CollectDefinedFlows
    \/ GenerateImportStatement
    \/ GenerateFlowDefinition
    \/ GenerateStatement
    \/ BeginBlock
    \/ EndBlock
    \/ EndFlowDefinition
    \/ Epilogue
    \/ Return

Spec == Init /\ [][Next]_vars


(***************************************************************************)
(* The whole of generate as one function of the instance and the program:   *)
(* the steps above, taken until generate returns or throws.                 *)
(***************************************************************************)
Step(g, c) ==
    CASE c.pc = "collect" -> collectStep(g, c)
      [] AtNode(c, "ImportStatement") -> importStep(g, c)
      [] AtNode(c, "FlowDefinition") -> flowBeginStep(g, c)
      [] AtStatement(c) /\ ~IsBlock(NextStatement(c)) -> statementStep(g, c)
      [] AtStatement(c) /\ IsBlock(NextStatement(c)) -> blockBeginStep(g, c)
      [] c.pc = "flow" /\ Top(c.stack).kind = "block" -> blockEndStep(g, c)
      [] c.pc = "flow" -> flowEndStep(g, c)
      [] OTHER -> epilogueStep(g, c)

RECURSIVE Run(_)
Run(m) == IF m.c.pc = "done" THEN m ELSE Run(Step(m.g, m.c))

\* new CodeGenerator().generate(ast)
FreshGenerate(ast) == Run(generateBegin(NewCodeGenerator, ast)).c.result

(***************************************************************************)
(* What the program given to generate declares, read from its AST.          *)
(***************************************************************************)
FlowNodes(ast) ==
    {ast.body[k] : k \in {k \in 1..Len(ast.body) :
                             ast.body[k].type = "FlowDefinition"}}

DeclaredFlows(ast) == {f.name.name : f \in FlowNodes(ast)}

DeclaredPrompts(ast) ==
    {ast.body[k].promptImport.name.name :
        k \in {k \in 1..Len(ast.body) :
                  /\ ast.body[k].type = "ImportStatement"
                  /\ ast.body[k].importType = "prompt"}}

\* The parameter lists F is declared with
ParameterLists(ast, F) ==
    {paramNamesOf(f) : f \in {f \in FlowNodes(ast) : f.name.name = F}}

Range(seq) == {seq[k] : k \in 1..Len(seq)}

PropertyNames(obj) == {p.key.name : p \in Range(obj.properties)}

\* The value of a property: the identifier itself for a shorthand property
PropertyValue(prop) == IF prop.shorthand THEN prop.key ELSE prop.value

IsObjectCall(call) ==
    /\ Len(call.arguments) = 1
    /\ call.arguments[1].type = "ObjectLiteral"

\* The texts that pass, for the parameters ps in this order, the value of a
\* property of that name
RECURSIVE PositionalTexts(_, _, _)
PositionalTexts(ps, props, g) ==
    IF ps = <<>> THEN {<<>>}
    ELSE {v \o Comma(Tail(ps)) \o rest :
            v \in {generateNode(PropertyValue(p), g).code :
                      p \in {p \in Range(props) : p.key.name = ps[1]}},
            rest \in PositionalTexts(Tail(ps), props, g)}

\* The calls emitted for the statement generated last
Emissions == Range(frame.last.calls)

LastStatement == frame.stmts[Len(frame.stmts)]

EarlierStatements == SubSeq(frame.stmts, 1, Len(frame.stmts) - 1)

\* C1: a call of a declared flow F whose single argument is an object
\* literal with every parameter name of F is emitted as await F(...) with
\* one argument per parameter, in the order of F's declaration, each the
\* value of the property of that name.
C1_FlowCallPositionalInDeclarationOrder ==
    \A e \in Emissions :
        \A ps \in ParameterLists(frame.ast, e.call.callee.name) :
            (/\ IsObjectCall(e.call)
             /\ Range(ps) \subseteq PropertyNames(e.call.arguments[1]))
            => \E qs \in ParameterLists(frame.ast, e.call.callee.name) :
                 \E args \in PositionalTexts(qs,
                                 e.call.arguments[1].properties, gen) :
                    e.code = <<"await", e.call.callee.name, "(">> \o args
                               \o <<")">>


\* Every function call node of a node, at any position and depth
RECURSIVE CallsIn(_)
RECURSIVE CallsInAll(_)
CallsInAll(nodes) ==
    IF nodes = <<>> THEN {} ELSE CallsIn(nodes[1]) \cup CallsInAll(Tail(nodes))

CallsIn(node) ==
    CASE node.type = "FunctionCall" -> {node} \cup CallsInAll(node.arguments)
      [] node.type = "MethodCall" ->
             CallsIn(node.object) \cup CallsInAll(node.arguments)
      [] node.type = "ObjectLiteral" ->
             UNION {CallsIn(PropertyValue(p)) : p \in Range(node.properties)}
      [] node.type = "ArrayLiteral" -> CallsInAll(node.elements)
      [] node.type = "MemberExpression" -> CallsIn(node.object)
      [] node.type \in {"ComparisonExpression", "LogicalExpression"} ->
             CallsIn(node.left) \cup CallsIn(node.right)
      [] node.type = "UnaryExpression" -> CallsIn(node.argument)
      [] node.type \in {"ReturnStatement", "ExpressionStatement"} ->
             CallsIn(node.expression)
      [] node.type \in {"Assignment", "DestructuringAssignment"} ->
             CallsIn(node.right)
      [] node.type = "IfStatement" ->
             CallsIn(node.condition) \cup CallsInAll(node.body)
      [] node.type = "ForStatement" ->
             CallsIn(node.iterable) \cup CallsInAll(node.body)
      [] node.type \in {"LoopStatement", "FlowDefinition", "Program"} ->
             CallsInAll(node.body)
      [] OTHER -> {}

\* The parameter names of the declared flow that an object-literal call of
\* it lacks
MissingParameters(ast, call) ==
    IF IsObjectCall(call)
    THEN UNION {Range(ps) \ PropertyNames(call.arguments[1]) :
                   ps \in ParameterLists(ast, call.callee.name)}
    ELSE {}

\* C2: when the program calls a declared flow with one object literal that
\* lacks a declared parameter name, in any position, generate throws, and
\* the error names a missing parameter and the callee of such a call.
C2_MissingParameterFailsGeneration ==
    frame.pc = "done" =>
        \A call \in CallsIn(frame.ast) :
            MissingParameters(frame.ast, call) # {} =>
                /\ ~frame.result.ok
                /\ \E bad \in CallsIn(frame.ast) :
                     \E p \in MissingParameters(frame.ast, bad) :
                        frame.result.error =
                            <<"Missing required parameter", p,
                              "in call to flow", bad.callee.name>>


\* C3: an emitted call begins with await exactly when its callee is declared
\* by the program as a prompt import or as a flow, whatever the statement,
\* the position in it and the depth of the blocks around it.
C3_AwaitIffPromptOrFlow ==
    \A e \in Emissions :
        (e.code[1] = "await")
            <=> e.call.callee.name \in DeclaredPrompts(frame.ast)
                                         \cup DeclaredFlows(frame.ast)

\* An awaited call of the flow F, declared after the calling flow Main,
\* inside an if body inside a for body
C3_Witness ==
    /\ frame.pc = "flow"
    /\ Len(frame.stack) = 3
    /\ frame.flow.name.name = "Main"
    /\ \E e \in Emissions : e.call.callee.name = "F" /\ e.code[1] = "await"

CallHead(call) == <<"await", call.callee.name, "(">>

\* The prompt convention: one argument, {} when none is written
PromptText(call, g) ==
    CallHead(call)
      \o (IF call.arguments = <<>> THEN <<"{}">>
          ELSE generateNode(call.arguments[1], g).code)
      \o <<")">>

\* The flow convention: the parameters by name for one object literal, the
\* arguments as written otherwise
FlowTexts(call, ast, g) ==
    IF IsObjectCall(call)
    THEN {CallHead(call) \o args \o <<")">> :
            args \in UNION {PositionalTexts(qs, call.arguments[1].properties, g) :
                               qs \in ParameterLists(ast, call.callee.name)}}
    ELSE {CallHead(call) \o generateList(call.arguments, g).code \o <<")">>}

BuiltinText(call, g) ==
    <<"_builtins", ".", call.callee.name, "(">>
      \o generateList(call.arguments, g).code \o <<")">>

OrdinaryText(call, g) ==
    <<call.callee.name, "(">> \o generateList(call.arguments, g).code
      \o <<")">>

\* C4: the first match decides the convention of a call, in the order prompt
\* import, declared flow, builtin, ordinary: a name that is a prompt and a
\* flow is called as a prompt, a flow named like a builtin as a flow, and
\* _builtins.<name> is emitted only for print, stringify and parse when the
\* name is neither a prompt nor a flow.
C4_FirstMatchClassification ==
    \A e \in Emissions :
        IF e.call.callee.name \in DeclaredPrompts(frame.ast)
        THEN e.code = PromptText(e.call, gen)
        ELSE IF e.call.callee.name \in DeclaredFlows(frame.ast)
        THEN e.code \in FlowTexts(e.call, frame.ast, gen)
        ELSE IF e.call.callee.name \in {"print", "stringify", "parse"}
        THEN e.code = BuiltinText(e.call, gen)
        ELSE e.code = OrdinaryText(e.call, gen)

\* Calls of F, a prompt and a flow at once, and of the flow print, emitted
C4_Witness ==
    \E e \in Emissions :
        /\ IsObjectCall(e.call)
        /\ e.call.callee.name \in DeclaredPrompts(frame.ast)
                                     \cap DeclaredFlows(frame.ast)

\* An object literal as written: the properties in their order, a shorthand
\* property as its name alone
RECURSIVE PropertyTexts(_, _)
PropertyTexts(props, g) ==
    IF props = <<>> THEN <<>>
    ELSE (IF props[1].shorthand THEN <<props[1].key.name>>
          ELSE <<props[1].key.name, ":">>
                 \o generateNode(props[1].value, g).code)
           \o Comma(Tail(props)) \o PropertyTexts(Tail(props), g)

ObjectText(obj, g) ==
    IF obj.properties = <<>> THEN <<"{}">>
    ELSE <<"{">> \o PropertyTexts(obj.properties, g) \o <<"}">>

BoundNames(stmt) ==
    CASE stmt.type = "Assignment" -> {stmt.left.name}
      [] stmt.type = "DestructuringAssignment" ->
             {id.name : id \in Range(stmt.left)}
      [] OTHER -> {}

Generated(type) ==
    /\ frame.stmts # <<>>
    /\ frame.last.ok
    /\ LastStatement.type = type

\* C6: a simple assignment to x is emitted as let x = ... exactly when x is
\* no parameter of the flow and no earlier statement of the same flow
\* assigned or destructured x, and as x = ... otherwise; what an earlier
\* flow bound does not count.
C6_LetIffFirstBinding ==
    Generated("Assignment") =>
        IF /\ LastStatement.left.name \notin Range(paramNamesOf(frame.flow))
           /\ \A s \in Range(EarlierStatements) :
                 LastStatement.left.name \notin BoundNames(s)
        THEN SubSeq(frame.last.code, 1, 3)
                 = <<"let", LastStatement.left.name, "=">>
        ELSE SubSeq(frame.last.code, 1, 2) = <<LastStatement.left.name, "=">>

\* The first assignment to x in the flow G, generated after a flow H that
\* has x as a parameter and assigns it
C6_Witness ==
    /\ Generated("Assignment")
    /\ Len(frame.ast.body) = 2
    /\ frame.flow.name.name = "G"
    /\ LastStatement.left.name = "x"
    /\ frame.last.code[1] = "let"

\* C7: a destructuring assignment is emitted as const { names } = ... for
\* all its names, bound before or not, and leaves every name in the
\* declared set: a later simple assignment to one of them is a rebind.
C7_DestructuringDeclaresAndRecords ==
    /\ Generated("DestructuringAssignment") =>
          /\ SubSeq(frame.last.code, 1, 2 * Len(LastStatement.left) + 3)
                = <<"const", "{">>
                    \o joinNames([k \in 1..Len(LastStatement.left) |->
                                     LastStatement.left[k].name])
                    \o <<"}", "=">>
          /\ BoundNames(LastStatement) \subseteq gen.declaredVariables
    /\ Generated("Assignment") =>
          ((\E s \in Range(EarlierStatements) :
               /\ s.type = "DestructuringAssignment"
               /\ LastStatement.left.name \in BoundNames(s))
           => frame.last.code[1] = LastStatement.left.name)

\* x, a parameter of the flow, destructured and then assigned
C7_Witness ==
    /\ Generated("Assignment")
    /\ Len(frame.stmts) = 2
    /\ frame.stmts[1].type = "DestructuringAssignment"
    /\ LastStatement.left.name = "x"
    /\ "x" \in Range(paramNamesOf(frame.flow))
    /\ frame.last.code[1] = "x"

\* C8: after the reset at the head of generate and before the registry
\* pass, the prompt registry, the symbol registry, the defined flows, the
\* flow parameter map, the declared names and the Main flag are as in a new
\* instance.
C8_AllStateResetBeforeRegistryPass ==
    frame.pc = "collect" =>
        /\ DOMAIN gen.importedPrompts = {}
        /\ DOMAIN gen.importedSymbols = {}
        /\ gen.definedFlows = {}
        /\ DOMAIN gen.flowParameters = {}
        /\ gen.declaredVariables = {}
        /\ ~gen.hasMainFlow

\* C9: what generate returns or throws for a program on an instance that
\* has compiled other programs is what a new instance returns or throws.
C9_OutputDeterminedByProgram ==
    frame.pc = "done" => frame.result = FreshGenerate(frame.ast)

\* The second invocation has returned for a program that calls a name which
\* an earlier program declared as a flow and this one does not
C9_Witness ==
    /\ frame.pc = "done"
    /\ runs = 2
    /\ frame.result.ok
    /\ \E call \in CallsIn(frame.ast) :
          /\ call.callee.name \in DOMAIN gen.flowParameters
          /\ call.callee.name \notin DeclaredFlows(frame.ast)

\* C10: the returned text holds the Main epilogue when a flow named Main is
\* declared, once and as its last part, and not otherwise.
C10_MainEpilogueIffMainFlow ==
    frame.pc = "done" =>
        {k \in 1..Len(frame.result.code) : frame.result.code[k] = MainEpilogue}
            = IF frame.result.ok /\ "Main" \in DeclaredFlows(frame.ast)
              THEN {Len(frame.result.code)}
              ELSE {}

\* Two flows named Main, the first followed by another declaration
C10_Witness ==
    /\ frame.pc = "done"
    /\ frame.result.ok
    /\ Len(frame.ast.body) = 2
    /\ \A k \in 1..2 : /\ frame.ast.body[k].type = "FlowDefinition"
                       /\ frame.ast.body[k].name.name = "Main"
    /\ frame.result.code[Len(frame.result.code)] = MainEpilogue

\* The heads of the declaration blocks of a generated text, in its order
RECURSIVE BlockHeads(_)
BlockHeads(code) ==
    IF Len(code) < 2 THEN <<>>
    ELSE (IF code[1] \in {"// Prompt import:", "// Flow:", "import"}
          THEN <<SubSeq(code, 1, 2)>> ELSE <<>>)
           \o BlockHeads(Tail(code))

\* The head of the block generated for a declaration
HeadOf(decl) ==
    CASE decl.type = "FlowDefinition" -> <<"// Flow:", decl.name.name>>
      [] decl.importType = "prompt" ->
             <<"// Prompt import:", decl.promptImport.name.name>>
      [] OTHER -> <<"import", "{">>

\* C11: the generated text is the prelude followed by one block for each
\* declaration, in the order the declarations have in the source text.
C11_BlocksInSourceOrder ==
    (frame.pc = "done" /\ frame.result.ok) =>
        /\ frame.result.code[1] = Prelude
        /\ BlockHeads(Tail(frame.result.code))
              = [k \in 1..Len(source) |-> HeadOf(source[k])]

(***************************************************************************)
(* compile: the four phases, the write of the output file and the catch     *)
(* block.  What the lexer and the parser report and whether the             *)
(* transformer throws are inputs of the phases; the generator is the one    *)
(* modelled above, on a new instance.                                       *)
(***************************************************************************)
MaxLexErrors == 2

MaxParserErrors == 2

\* Source texts given to compile: one that generates, one with a Main flow,
\* one with a flow call that lacks a parameter, one without declarations
CompileSources ==
    {<<promptP, FlowDefinition("G", <<"x">>,
                   <<Assignment("r", FunctionCall("P", <<>>))>>)>>,
     <<FlowDefinition("Main", <<>>, <<>>)>>,
     <<FlowDefinition("F", <<"x", "y">>, <<>>),
       FlowDefinition("G", <<"x">>,
           <<ReturnStatement(FunctionCall("F", <<ObjectLiteral(<<x5>>)>>))>>)>>,
     <<>>}

OutputPaths == {"null", "out/a.js"}

dirname(outputPath) == "out"

\* An error is thrown inside the try block
throw(c, error) == [c EXCEPT !.pc = "catch", !.threw = error]

compileBegin(decls, outputPath, dirs) ==
    [NoCompile EXCEPT !.pc = "tokenize", !.source = decls,
                      !.outputPath = outputPath, !.dirs = dirs]

\* PromptLangLexer.tokenize and the check of lexResult.errors
tokenizeStep(c, errors) ==
    IF errors > 0
    THEN throw([c EXCEPT !.lexErrors = errors], "CompilerError")
    ELSE [c EXCEPT !.pc = "parse", !.log = Append(@, "Tokenization complete")]

\* Mutant of parseStep: the tree that recovery produced is used
parseStepRecovered(c, errors) ==
    [c EXCEPT !.parserErrors = errors, !.pc = "transform",
              !.log = Append(@, "Parsing complete")]

\* parserInstance.script() and the check of parserInstance.errors
parseStep(c, errors) ==
    IF errors > 0
    THEN throw([c EXCEPT !.parserErrors = errors], "RecognitionException")
    ELSE [c EXCEPT !.pc = "transform", !.log = Append(@, "Parsing complete")]

\* new ASTTransformer().transform(cst)
transformStep(c, throws) ==
    IF throws THEN throw(c, "Error: transform")
    ELSE [c EXCEPT !.pc = "generate", !.ast = transform(script(c.source)),
                   !.log = Append(@, "AST transformation complete")]

\* new CodeGenerator().generate(ast)
generateStep(c) ==
    IF ~FreshGenerate(c.ast).ok THEN throw(c, "Error: generate")
    ELSE [c EXCEPT !.pc = "output", !.jsCode = FreshGenerate(c.ast).code,
                   !.log = Append(@, "Code generation complete")]

\* if (outputPath) { mkdirSync when the directory is missing; writeFileSync }
outputStep(c) ==
    IF c.outputPath = "null" THEN [c EXCEPT !.pc = "returned"]
    ELSE [c EXCEPT !.pc = "returned",
                   !.dirs = @ \cup {dirname(c.outputPath)},
                   !.files = @ \cup {<<c.outputPath, c.jsCode>>},
                   !.log = Append(@, "Generated JavaScript written")]

\* The catch block: the error is printed, then process.exit(1)
catchStep(c) == [c EXCEPT !.pc = "exited", !.exitCode = 1]

Compile(decls, outputPath, dirs) ==
    /\ compiler.pc = "idle"
    /\ compiler' = compileBegin(decls, outputPath, dirs)
    /\ UNCHANGED <<generatorVars, lexer, parser, logic, validation, runtime,
                   expression>>

Tokenize(errors) ==
    /\ compiler.pc = "tokenize"
    /\ compiler' = tokenizeStep(compiler, errors)
    /\ UNCHANGED <<generatorVars, lexer, parser, logic, validation, runtime,
                   expression>>

Parse(errors) ==
    /\ compiler.pc = "parse"
    /\ compiler' = parseStep(compiler, errors)
    /\ UNCHANGED <<generatorVars, lexer, parser, logic, validation, runtime,
                   expression>>

Transform(throws) ==
    /\ compiler.pc = "transform"
    /\ compiler' = transformStep(compiler, throws)
    /\ UNCHANGED <<generatorVars, lexer, parser, logic, validation, runtime,
                   expression>>

GenerateCode ==
    /\ compiler.pc = "generate"
    /\ compiler' = generateStep(compiler)
    /\ UNCHANGED <<generatorVars, lexer, parser, logic, validation, runtime,
                   expression>>

WriteOutput ==
    /\ compiler.pc = "output"
    /\ compiler' = outputStep(compiler)
    /\ UNCHANGED <<generatorVars, lexer, parser, logic, validation, runtime,
                   expression>>

Catch ==
    /\ compiler.pc = "catch"
    /\ compiler' = catchStep(compiler)
    /\ UNCHANGED <<generatorVars, lexer, parser, logic, validation, runtime,
                   expression>>

NextCompile ==
    \/ \E decls \in CompileSources, outputPath \in OutputPaths,
          dirs \in SUBSET {"out"} : Compile(decls, outputPath, dirs)
    \/ \E errors \in 0..MaxLexErrors : Tokenize(errors)
    \/ \E errors \in 0..MaxParserErrors : Parse(errors)
    \/ \E throws \in BOOLEAN : Transform(throws)
    \/ GenerateCode
    \/ WriteOutput
    \/ Catch

SpecCompile == Init /\ [][NextCompile]_vars

PhaseLog ==
    <<"Tokenization complete", "Parsing complete",
      "AST transformation complete", "Code generation complete",
      "Generated JavaScript written">>

\* A phase of this run of compile ended with an error
PhaseFailed ==
    \/ compiler.lexErrors > 0
    \/ compiler.parserErrors > 0
    \/ compiler.threw # ""

\* C12: the phases complete in the order tokenize, parse, transform,
\* generate; the output file is written only after all four completed
\* without an error; and a run with a lexer error, a parser error, a throw of
\* the transformer or a throw of the generator writes no file and ends with
\* exit status 1.
C12_WriteOnlyAfterFourPhases ==
    /\ compiler.log = SubSeq(PhaseLog, 1, Len(compiler.log))
    /\ compiler.files # {} =>
          /\ Len(compiler.log) = 5
          /\ ~PhaseFailed
          /\ compiler.files
                = {<<compiler.outputPath, FreshGenerate(compiler.ast).code>>}
    /\ PhaseFailed =>
          /\ compiler.files = {}
          /\ compiler.pc \in {"catch", "exited"}
          /\ compiler.pc = "exited" => compiler.exitCode = 1
    /\ compiler.pc = "returned" => compiler.exitCode = 0 /\ ~PhaseFailed

\* The parser recorded errors after the lexer reported none: compile has
\* ended with status 1 and no file
C12_Witness ==
    /\ compiler.pc = "exited"
    /\ compiler.parserErrors > 0
    /\ compiler.log = <<"Tokenization complete">>
    /\ compiler.outputPath # "null"

(***************************************************************************)
(* The lexer.  A text is a sequence of characters; at each offset the       *)
(* token types of allTokens are tried in their order and the first whose    *)
(* pattern matches there gives the token.                                   *)
(***************************************************************************)
Letters ==
    {"a", "b", "c", "d", "e", "f", "g", "h", "i", "j", "k", "l", "m", "n",
     "o", "p", "q", "r", "s", "t", "u", "v", "w", "x", "y", "z",
     "A", "B", "C", "D", "E", "F", "G", "H", "I", "J", "K", "L", "M", "N",
     "O", "P", "Q", "R", "S", "T", "U", "V", "W", "X", "Y", "Z", "_"}

Digits == {"0", "1", "2", "3", "4", "5", "6", "7", "8", "9"}

WhiteSpaces == {" ", "\t", "\n", "\r"}

\* The character at offset i, the empty string past the end
At(text, i) == IF i <= Len(text) THEN text[i] ELSE ""

\* The length of the longest run of characters of S from offset i
RECURSIVE span(_, _, _)
span(text, i, S) ==
    IF i <= Len(text) /\ text[i] \in S THEN 1 + span(text, i + 1, S) ELSE 0

\* A pattern that is a fixed word
matchWord(text, i, word) ==
    IF /\ i + Len(word) - 1 <= Len(text)
       /\ SubSeq(text, i, i + Len(word) - 1) = word
    THEN Len(word) ELSE 0

\* (?:[^"\\]|\\.)*" from offset j: the offset of the closing quote, 0 if none
RECURSIVE stringEnd(_, _)
stringEnd(text, j) ==
    IF j > Len(text) THEN 0
    ELSE IF text[j] = "\"" THEN j
    ELSE IF text[j] = "\\"
    THEN (IF j + 1 <= Len(text) /\ text[j + 1] \notin {"\n", "\r"}
          THEN stringEnd(text, j + 2) ELSE 0)
    ELSE stringEnd(text, j + 1)

matchStringLiteral(text, i) ==
    IF At(text, i) = "\"" /\ stringEnd(text, i + 1) > 0
    THEN stringEnd(text, i + 1) - i + 1 ELSE 0

\* (?:0|[1-9]\d*)
matchInteger(text, j) ==
    IF At(text, j) = "0" THEN 1
    ELSE IF At(text, j) \in Digits THEN span(text, j, Digits)
    ELSE 0

\* (?:\.\d+)?
matchFraction(text, k) ==
    IF At(text, k) = "." /\ span(text, k + 1, Digits) > 0
    THEN 1 + span(text, k + 1, Digits) ELSE 0

\* (?:[eE][+-]?\d+)?
matchExponent(text, k) ==
    IF At(text, k) \notin {"e", "E"} THEN 0
    ELSE IF At(text, k + 1) \in {"+", "-"}
    THEN (IF span(text, k + 2, Digits) > 0
          THEN 2 + span(text, k + 2, Digits) ELSE 0)
    ELSE IF span(text, k + 1, Digits) > 0
    THEN 1 + span(text, k + 1, Digits) ELSE 0

\* The fraction and the exponent after an integer of length n at j
matchNumberTail(text, j, n) ==
    n + matchFraction(text, j + n)
      + matchExponent(text, j + n + matchFraction(text, j + n))

matchUnsigned(text, j) ==
    IF matchInteger(text, j) = 0 THEN 0
    ELSE matchNumberTail(text, j, matchInteger(text, j))

matchNumberLiteral(text, i) ==
    IF At(text, i) = "-"
    THEN (IF matchUnsigned(text, i + 1) = 0 THEN 0
          ELSE 1 + matchUnsigned(text, i + 1))
    ELSE matchUnsigned(text, i)

\* true|false
matchBooleanLiteral(text, i) ==
    IF matchWord(text, i, <<"t", "r", "u", "e">>) > 0 THEN 4
    ELSE matchWord(text, i, <<"f", "a", "l", "s", "e">>)

\* [a-zA-Z_][a-zA-Z0-9_]*
matchIdentifier(text, i) ==
    IF At(text, i) \in Letters THEN span(text, i, Letters \cup Digits) ELSE 0

Word(name, word) == [name |-> name, pattern |-> "word", word |-> word]

Pattern(name) == [name |-> name, pattern |-> name, word |-> <<>>]

\* Mutant of comparisonTokens: each operator after its one-character prefix
comparisonTokensShortFirst ==
    <<Word("Equals", <<"=">>),
      Word("DoubleEquals", <<"=", "=">>),
      Word("NotEquals", <<"!", "=">>),
      Word("LessThan", <<"<">>),
      Word("GreaterThan", <<">">>),
      Word("LessThanEquals", <<"<", "=">>),
      Word("GreaterThanEquals", <<">", "=">>)>>

\* The part of allTokens from DoubleEquals to GreaterThan
comparisonTokens ==
    <<Word("DoubleEquals", <<"=", "=">>),
      Word("Equals", <<"=">>),
      Word("NotEquals", <<"!", "=">>),
      Word("LessThanEquals", <<"<", "=">>),
      Word("GreaterThanEquals", <<">", "=">>),
      Word("LessThan", <<"<">>),
      Word("GreaterThan", <<">">>)>>

\* The token types in the order the lexer tries them
allTokens ==
    <<Pattern("WhiteSpace"),
      Word("Import", <<"i", "m", "p", "o", "r", "t">>),
      Word("Prompt", <<"p", "r", "o", "m", "p", "t">>),
      Word("As", <<"a", "s">>),
      Word("With", <<"w", "i", "t", "h">>),
      Word("Input", <<"i", "n", "p", "u", "t">>),
      Word("Returns", <<"r", "e", "t", "u", "r", "n", "s">>),
      Word("Flow", <<"f", "l", "o", "w">>),
      Word("Return", <<"r", "e", "t", "u", "r", "n">>),
      Word("If", <<"i", "f">>),
      Word("For", <<"f", "o", "r">>),
      Word("In", <<"i", "n">>),
      Word("Loop", <<"l", "o", "o", "p">>),
      Word("And", <<"a", "n", "d">>),
      Word("Or", <<"o", "r">>),
      Word("Not", <<"n", "o", "t">>),
      Word("LCurly", <<"{">>),
      Word("RCurly", <<"}">>),
      Word("LParen", <<"(">>),
      Word("RParen", <<")">>),
      Word("LBracket", <<"[">>),
      Word("RBracket", <<"]">>),
      Word("Colon", <<":">>),
      Word("Comma", <<",">>)>>
    \o comparisonTokens
    \o <<Word("Dot", <<".">>),
      Pattern("StringLiteral"),
      Pattern("NumberLiteral"),
      Pattern("BooleanLiteral"),
      Pattern("Identifier")>>

\* The length of the match of a token type at offset i, 0 for no match
match(tokType, text, i) ==
    CASE tokType.pattern = "word" -> matchWord(text, i, tokType.word)
      [] tokType.pattern = "WhiteSpace" -> span(text, i, WhiteSpaces)
      [] tokType.pattern = "StringLiteral" -> matchStringLiteral(text, i)
      [] tokType.pattern = "NumberLiteral" -> matchNumberLiteral(text, i)
      [] tokType.pattern = "BooleanLiteral" -> matchBooleanLiteral(text, i)
      [] OTHER -> matchIdentifier(text, i)

\* The first token type of types, from the k-th on, that matches at offset
\* i: its index, 0 when none matches
RECURSIVE firstMatch(_, _, _, _)
firstMatch(types, text, i, k) ==
    IF k > Len(types) THEN 0
    ELSE IF match(types[k], text, i) > 0 THEN k
    ELSE firstMatch(types, text, i, k + 1)

Token(tokType, text, i) ==
    [name |-> tokType.name,
     image |-> SubSeq(text, i, i + match(tokType, text, i) - 1),
     startOffset |-> i,
     endOffset |-> i + match(tokType, text, i) - 1]

\* A character no pattern matches at: it is dropped and joins the error of
\* the characters dropped just before it, or opens a new error
dropped(errors, i) ==
    IF errors # <<>> /\ errors[Len(errors)].offset
                          + errors[Len(errors)].length = i
    THEN [errors EXCEPT ![Len(errors)].length = @ + 1]
    ELSE Append(errors, [offset |-> i, length |-> 1])

\* The token type with index k matched at the offset of the lexer
matched(l, k) ==
    IF allTokens[k].name = "WhiteSpace"
    THEN [l EXCEPT !.offset = @ + match(allTokens[k], l.text, l.offset)]
    ELSE [l EXCEPT !.offset = @ + match(allTokens[k], l.text, l.offset),
                   !.tokens = Append(@, Token(allTokens[k], l.text, l.offset))]

\* One round of the loop of tokenize
lexStep(l) ==
    IF l.offset > Len(l.text) THEN [l EXCEPT !.pc = "done"]
    ELSE IF firstMatch(allTokens, l.text, l.offset, 1) = 0
    THEN [l EXCEPT !.offset = @ + 1, !.errors = dropped(@, l.offset)]
    ELSE matched(l, firstMatch(allTokens, l.text, l.offset, 1))

MaxText == 3

\* The characters of the operators, a letter, a blank, a quote and a
\* character of no token
OperatorChars == {"=", "<", ">", "!", "a", " ", "\""}

\* The letters of the keywords as and or, and a blank
WordChars == {"a", "s", "o", "r", " "}

Texts == SeqsUpTo(OperatorChars, MaxText) \cup SeqsUpTo(WordChars, MaxText)

LexerAt(kind) ==
    /\ lexer.pc = "scan"
    /\ kind = (IF lexer.offset > Len(lexer.text) THEN "end"
               ELSE IF firstMatch(allTokens, lexer.text, lexer.offset, 1) = 0
               THEN "error"
               ELSE IF firstMatch(allTokens, lexer.text, lexer.offset, 1) = 1
               THEN "skip"
               ELSE "token")

LexerStep ==
    /\ lexer' = lexStep(lexer)
    /\ UNCHANGED <<generatorVars, compiler, parser, logic, validation, runtime,
                   expression>>

\* PromptLangLexer.tokenize(text)
LexText(text) ==
    /\ lexer.pc = "idle"
    /\ lexer' = [NoLexer EXCEPT !.pc = "scan", !.text = text]
    /\ UNCHANGED <<generatorVars, compiler, parser, logic, validation, runtime,
                   expression>>

SkipWhiteSpace == LexerAt("skip") /\ LexerStep

EmitToken == LexerAt("token") /\ LexerStep

DropCharacter == LexerAt("error") /\ LexerStep

EndOfText == LexerAt("end") /\ LexerStep

NextLexer ==
    \/ \E text \in Texts : LexText(text)
    \/ SkipWhiteSpace
    \/ EmitToken
    \/ DropCharacter
    \/ EndOfText

SpecLexer == Init /\ [][NextLexer]_vars

TwoCharacterOperators ==
    {<<"=", "=">>, <<"!", "=">>, <<"<", "=">>, <<">", "=">>}

\* C13: a token =, < or > is never followed at once by the character =, a
\* token that begins where ==, !=, <= or >= stands is that two-character
\* operator, and no ! before = is dropped as an error.
C13_TwoCharacterOperatorsNotSplit ==
    /\ \A k \in 1..Len(lexer.tokens) :
          /\ lexer.tokens[k].name \in {"Equals", "LessThan", "GreaterThan"}
                => At(lexer.text, lexer.tokens[k].endOffset + 1) # "="
          /\ <<At(lexer.text, lexer.tokens[k].startOffset),
               At(lexer.text, lexer.tokens[k].startOffset + 1)>>
                  \in TwoCharacterOperators
                => /\ lexer.tokens[k].name
                        \in {"DoubleEquals", "NotEquals", "LessThanEquals",
                             "GreaterThanEquals"}
                   /\ lexer.tokens[k].endOffset
                        = lexer.tokens[k].startOffset + 1
    /\ \A k \in 1..Len(lexer.errors) :
          \A i \in 0..(lexer.errors[k].length - 1) :
             <<At(lexer.text, lexer.errors[k].offset + i),
               At(lexer.text, lexer.errors[k].offset + i + 1)>>
                 \notin TwoCharacterOperators

\* The text <== has been lexed: <= and then =
C13_Witness ==
    /\ lexer.pc = "done"
    /\ lexer.text = <<"<", "=", "=">>
    /\ Len(lexer.tokens) = 2
    /\ lexer.tokens[1].name = "LessThanEquals"
    /\ lexer.tokens[2].name = "Equals"

(***************************************************************************)
(* The statement rule and its gate isDestructuringAssignment.  The input    *)
(* of the parser is a sequence of token types; the alternatives of the      *)
(* rule are tried in their order.                                           *)
(***************************************************************************)
\* this.LA(i).tokenType: EOF past the end of the input
LA(tokens, i) == IF i <= Len(tokens) THEN tokens[i] ELSE "EOF"

LookaheadLimit == 20

\* The first tokens of an expression
FirstOfExpression ==
    {"Not", "Identifier", "LCurly", "LBracket", "StringLiteral",
     "NumberLiteral", "BooleanLiteral"}

\* The alternatives before the gated one, by their first tokens
ungatedAlternative(tokens) ==
    CASE LA(tokens, 1) = "Return" -> "returnStatement"
      [] LA(tokens, 1) = "If" -> "ifStatement"
      [] LA(tokens, 1) = "For" -> "forStatement"
      [] LA(tokens, 1) = "Loop" -> "loopStatement"
      [] LA(tokens, 1) = "Identifier" /\ LA(tokens, 2) = "Equals" ->
             "assignment"
      [] OTHER -> ""

\* The statement rule is entered: one of the first five alternatives is
\* taken, or the gate of the sixth is called
statementBegin(tokens) ==
    IF ungatedAlternative(tokens) # ""
    THEN [NoParser EXCEPT !.pc = "parsed", !.tokens = tokens,
                          !.alternative = ungatedAlternative(tokens)]
    ELSE [NoParser EXCEPT !.pc = "gate", !.tokens = tokens]

\* isDestructuringAssignment up to its loop
gateBegin(p) ==
    IF LA(p.tokens, 1) # "LCurly"
    THEN [p EXCEPT !.pc = "gated", !.gate = "false"]
    ELSE [p EXCEPT !.pc = "scan", !.i = 2, !.braceCount = 1]

\* One test of the loop condition: a round of the loop, or the end of the
\* function
gateStep(p) ==
    IF p.braceCount > 0 /\ p.i < LookaheadLimit
    THEN [p EXCEPT !.i = @ + 1, !.rounds = @ + 1,
                   !.braceCount =
                       CASE LA(p.tokens, p.i) = "LCurly" -> @ + 1
                         [] LA(p.tokens, p.i) = "RCurly" -> @ - 1
                         [] OTHER -> @]
    ELSE [p EXCEPT !.pc = "gated",
                   !.gate = IF p.braceCount = 0
                                 /\ LA(p.tokens, p.i) = "Equals"
                            THEN "true" ELSE "false"]

\* Mutant of alternativeStep: the expression statement is tried before the
\* destructuring assignment
alternativeStepExpressionFirst(p) ==
    [p EXCEPT !.pc = "parsed",
              !.alternative =
                  IF LA(p.tokens, 1) \in FirstOfExpression
                  THEN "expressionStatement"
                  ELSE IF /\ p.gate = "true"
                          /\ LA(p.tokens, 1) = "LCurly"
                          /\ LA(p.tokens, 2) = "Identifier"
                  THEN "destructuringAssignment"
                  ELSE "NoViableAlt"]

\* The gate has returned: the destructuring assignment when the gate holds
\* and its first tokens are there, else the expression statement
alternativeStep(p) ==
    [p EXCEPT !.pc = "parsed",
              !.alternative =
                  IF /\ p.gate = "true"
                     /\ LA(p.tokens, 1) = "LCurly"
                     /\ LA(p.tokens, 2) = "Identifier"
                  THEN "destructuringAssignment"
                  ELSE IF LA(p.tokens, 1) \in FirstOfExpression
                  THEN "expressionStatement"
                  ELSE "NoViableAlt"]

parserStep(p) ==
    CASE p.pc = "gate" -> gateBegin(p)
      [] p.pc = "scan" -> gateStep(p)
      [] OTHER -> alternativeStep(p)

RECURSIVE gateRun(_)
gateRun(p) == IF p.pc = "gated" THEN p ELSE gateRun(parserStep(p))

\* What isDestructuringAssignment returns with tokens as the input
isDestructuringAssignment(tokens) ==
    gateRun([NoParser EXCEPT !.pc = "gate", !.tokens = tokens]).gate = "true"

MaxBraced == 20

Repeat(tok, n) == [k \in 1..n |-> tok]

\* { a, b, ... } with n names
NameList(n) ==
    <<"LCurly">>
      \o [k \in 1..(2 * n - 1) |->
            IF k % 2 = 1 THEN "Identifier" ELSE "Comma"]
      \o <<"RCurly">>

Tails == {<<"Equals", "Identifier", "LParen", "RParen">>, <<"Identifier">>,
          <<"Equals">>, <<>>}

\* Statements that open with a brace: lists of names, m tokens between the
\* braces, a nested pair of braces after them, and braces never closed
BracedStatements ==
    {NameList(n) \o tail : n \in 1..(MaxBraced \div 2 + 1), tail \in Tails}
      \cup {<<"LCurly">> \o Repeat("Identifier", m) \o <<"RCurly">> \o tail :
               m \in 0..MaxBraced, tail \in Tails}
      \cup {<<"LCurly">> \o Repeat("Identifier", m)
                \o <<"LCurly", "RCurly", "RCurly">> \o tail :
               m \in 0..MaxBraced, tail \in Tails}
      \cup {<<"LCurly">> \o Repeat("Comma", m) : m \in 0..MaxBraced}
      \cup {<<"LCurly", "LCurly">> \o Repeat("Identifier", m)
                \o <<"RCurly">> : m \in 0..MaxBraced}

\* Statements that open with another token: x = { a: 1 }, x = y, return x,
\* f(), x.y, "s", not x, [x], if, for and loop statements, x } = y
OtherStatements ==
    {<<"Identifier", "Equals", "LCurly", "Identifier", "Colon",
       "NumberLiteral", "RCurly">>,
     <<"Identifier", "Equals", "LCurly", "Identifier", "Comma", "Identifier",
       "RCurly">>,
     <<"Identifier", "Equals", "Identifier">>,
     <<"Return", "Identifier">>,
     <<"Return", "LCurly", "Identifier", "RCurly">>,
     <<"Identifier", "LParen", "RParen">>,
     <<"Identifier", "Dot", "Identifier">>,
     <<"StringLiteral">>,
     <<"Not", "Identifier">>,
     <<"LBracket", "Identifier", "RBracket">>,
     <<"If", "Identifier", "LCurly", "RCurly">>,
     <<"For", "Identifier", "In", "Identifier", "LCurly", "RCurly">>,
     <<"Loop", "LCurly", "RCurly">>,
     <<"Identifier", "RCurly", "Equals", "Identifier">>,
     <<"RCurly", "Equals", "Identifier">>}

TokenStatements == BracedStatements \cup OtherStatements

\* The statement rule is entered with tokens as the rest of the input
Statement(tokens) ==
    /\ parser.pc = "idle"
    /\ parser' = statementBegin(tokens)
    /\ UNCHANGED <<generatorVars, compiler, lexer, logic, validation, runtime,
                   expression>>

GateBegin ==
    /\ parser.pc = "gate"
    /\ parser' = gateBegin(parser)
    /\ UNCHANGED <<generatorVars, compiler, lexer, logic, validation, runtime,
                   expression>>

GateRound ==
    /\ parser.pc = "scan"
    /\ parser.braceCount > 0 /\ parser.i < LookaheadLimit
    /\ parser' = gateStep(parser)
    /\ UNCHANGED <<generatorVars, compiler, lexer, logic, validation, runtime,
                   expression>>

GateReturn ==
    /\ parser.pc = "scan"
    /\ ~(parser.braceCount > 0 /\ parser.i < LookaheadLimit)
    /\ parser' = gateStep(parser)
    /\ UNCHANGED <<generatorVars, compiler, lexer, logic, validation, runtime,
                   expression>>

Alternative ==
    /\ parser.pc = "gated"
    /\ parser' = alternativeStep(parser)
    /\ UNCHANGED <<generatorVars, compiler, lexer, logic, validation, runtime,
                   expression>>

NextParser ==
    \/ \E tokens \in TokenStatements : Statement(tokens)
    \/ GateBegin
    \/ GateRound
    \/ GateReturn
    \/ Alternative

SpecParser == Init /\ [][NextParser]_vars

\* The offset of the brace that closes the brace at offset 1, from offset i
\* on with depth open braces; 0 when the input ends before
RECURSIVE closingBrace(_, _, _)
closingBrace(tokens, i, depth) ==
    IF i > Len(tokens) THEN 0
    ELSE IF tokens[i] = "RCurly" /\ depth = 1 THEN i
    ELSE closingBrace(tokens, i + 1,
                      CASE tokens[i] = "LCurly" -> depth + 1
                        [] tokens[i] = "RCurly" -> depth - 1
                        [] OTHER -> depth)

\* { name, ..., name } = ... with the closing brace within the budget
IsDestructuringStatement(tokens) ==
    /\ closingBrace(tokens, 2, 1) \in 3..LookaheadLimit
    /\ SubSeq(tokens, 1, closingBrace(tokens, 2, 1))
          = NameList((closingBrace(tokens, 2, 1) - 1) \div 2)
    /\ LA(tokens, closingBrace(tokens, 2, 1) + 1) = "Equals"

\* C14: a list of names in braces that closes within the budget and is
\* followed by = is parsed as a destructuring assignment; a name followed by
\* = is parsed as a simple assignment; and the gate is false for every
\* statement that does not open with a brace.
C14_DestructuringOrAssignment ==
    /\ parser.pc = "parsed" =>
          /\ IsDestructuringStatement(parser.tokens)
                => parser.alternative = "destructuringAssignment"
          /\ (LA(parser.tokens, 1) = "Identifier"
                 /\ LA(parser.tokens, 2) = "Equals")
                => parser.alternative = "assignment"
    /\ (parser.pc # "idle" /\ LA(parser.tokens, 1) # "LCurly") =>
          /\ parser.gate # "true"
          /\ ~isDestructuringAssignment(parser.tokens)

\* { a, b } = f() has been parsed as a destructuring assignment
C14_Witness ==
    /\ parser.pc = "parsed"
    /\ parser.tokens = NameList(2) \o <<"Equals", "Identifier", "LParen",
                                         "RParen">>
    /\ parser.gate = "true"
    /\ parser.alternative = "destructuringAssignment"

\* C15: for a statement that opens with a brace the gate returns true
\* exactly when the closing brace is at an offset p of at most 20 and the
\* token at p + 1 is =; and the loop makes a bounded number of rounds.
C15_GateTrueIffClosedWithinBudget ==
    /\ parser.rounds <= LookaheadLimit
    /\ (parser.pc \in {"gated", "parsed"} /\ LA(parser.tokens, 1) = "LCurly")
          => ((parser.gate = "true")
                <=> /\ closingBrace(parser.tokens, 2, 1) \in 2..LookaheadLimit
                    /\ LA(parser.tokens, closingBrace(parser.tokens, 2, 1) + 1)
                          = "Equals")

(***************************************************************************)
(* Logical expressions: the logicalExpression rule, the transformer, the    *)
(* generator, and the emitted text read as JavaScript.                      *)
(***************************************************************************)
\* The operators of a chain that are the token tok, in source order
RECURSIVE tokensOf(_, _)
tokensOf(operators, tok) ==
    IF operators = <<>> THEN <<>>
    ELSE (IF operators[1] = tok THEN <<tok>> ELSE <<>>)
           \o tokensOf(Tail(operators), tok)

\* The parse tree of e0 op1 e1 ... opn en: the operands in source order, and
\* the And tokens and the Or tokens each in a list of their own
logicalExpression(operands, operators) ==
    [notExpression |-> operands,
     And |-> tokensOf(operators, "and"),
     Or |-> tokensOf(operators, "or")]

transformNotExpression(cst) ==
    IF cst.Not THEN UnaryExpression(Identifier(cst.primaryExpression))
    ELSE Identifier(cst.primaryExpression)

\* The loop of transformLogicalExpression from its round i, 0-based
RECURSIVE transformOperators(_, _, _)
transformOperators(cst, i, expr) ==
    IF i >= Len(cst.And) + Len(cst.Or) THEN expr
    ELSE transformOperators(cst, i + 1,
             LogicalExpression(IF i < Len(cst.And) THEN "and" ELSE "or",
                               expr,
                               transformNotExpression(cst.notExpression[i + 2])))

transformLogicalExpression(cst) ==
    transformOperators(cst, 0, transformNotExpression(cst.notExpression[1]))

\* The offset of the first token tok of a text, 0 when it has none
RECURSIVE indexOf(_, _, _)
indexOf(tokens, tok, i) ==
    IF i > Len(tokens) THEN 0
    ELSE IF tokens[i] = tok THEN i
    ELSE indexOf(tokens, tok, i + 1)

\* The emitted text read as JavaScript: ! binds tighter than &&, && tighter
\* than ||
RECURSIVE jsUnary(_, _)
jsUnary(tokens, env) ==
    IF tokens[1] = "!" THEN ~jsUnary(Tail(tokens), env) ELSE env[tokens[1]]

RECURSIVE jsAnd(_, _)
jsAnd(tokens, env) ==
    IF indexOf(tokens, "&&", 1) = 0 THEN jsUnary(tokens, env)
    ELSE /\ jsUnary(SubSeq(tokens, 1, indexOf(tokens, "&&", 1) - 1), env)
         /\ jsAnd(SubSeq(tokens, indexOf(tokens, "&&", 1) + 1, Len(tokens)),
                  env)

RECURSIVE jsOr(_, _)
jsOr(tokens, env) ==
    IF indexOf(tokens, "||", 1) = 0 THEN jsAnd(tokens, env)
    ELSE \/ jsAnd(SubSeq(tokens, 1, indexOf(tokens, "||", 1) - 1), env)
         \/ jsOr(SubSeq(tokens, indexOf(tokens, "||", 1) + 1, Len(tokens)),
                 env)

MaxOperators == 3

OperandNames == <<"a", "b", "c", "d", "e", "f">>

\* The operands a, b, c, ... of a chain, each with or without not
Operands(n) ==
    {[k \in 1..n |-> [Not |-> nots[k], primaryExpression |-> OperandNames[k]]] :
        nots \in [1..n -> BOOLEAN]}

Environments(n) ==
    [{OperandNames[k] : k \in 1..n} -> BOOLEAN]

\* The logicalExpression rule has parsed the chain
ParseLogical(operands, operators) ==
    /\ logic.pc = "idle"
    /\ logic' = [NoLogic EXCEPT !.pc = "parsed", !.operands = operands,
                                !.operators = operators,
                                !.cst = logicalExpression(operands, operators)]
    /\ UNCHANGED <<generatorVars, compiler, lexer, parser, validation, runtime,
                   expression>>

TransformLogical ==
    /\ logic.pc = "parsed"
    /\ logic' = [logic EXCEPT !.pc = "transformed",
                              !.ast = transformLogicalExpression(logic.cst)]
    /\ UNCHANGED <<generatorVars, compiler, lexer, parser, validation, runtime,
                   expression>>

GenerateLogical ==
    /\ logic.pc = "transformed"
    /\ logic' = [logic EXCEPT !.pc = "generated",
                              !.js = generateNode(logic.ast,
                                                  NewCodeGenerator).code]
    /\ UNCHANGED <<generatorVars, compiler, lexer, parser, validation, runtime,
                   expression>>

\* The emitted text is evaluated with the operands bound by env
EvaluateLogical(env) ==
    /\ logic.pc = "generated"
    /\ logic' = [logic EXCEPT !.pc = "evaluated", !.env = env,
                              !.value = jsOr(logic.js, env)]
    /\ UNCHANGED <<generatorVars, compiler, lexer, parser, validation, runtime,
                   expression>>

NextLogic ==
    \/ \E n \in 0..MaxOperators :
          \E operands \in Operands(n + 1), operators \in [1..n -> {"and", "or"}] :
             ParseLogical(operands, operators)
    \/ TransformLogical
    \/ GenerateLogical
    \/ \E env \in Environments(Len(logic.operands)) : EvaluateLogical(env)

SpecLogic == Init /\ [][NextLogic]_vars

\* An operand of a chain as an expression
OperandTree(operand) ==
    IF operand.Not THEN UnaryExpression(Identifier(operand.primaryExpression))
    ELSE Identifier(operand.primaryExpression)

\* ((e0 op1 e1) op2 e2) ... opn en
RECURSIVE LeftNested(_, _, _)
LeftNested(operands, operators, n) ==
    IF n = 0 THEN OperandTree(operands[1])
    ELSE LogicalExpression(operators[n],
                           LeftNested(operands, operators, n - 1),
                           OperandTree(operands[n + 1]))

\* C16: the transformer gives the chain e0 op1 e1 ... opn en the
\* left-nested tree in which the k-th logical expression from the innermost
\* has the k-th operator of the source and ek as its right operand.
C16_OperatorsInEncounterOrder ==
    logic.pc \in {"transformed", "generated", "evaluated"} =>
        logic.ast = LeftNested(logic.operands, logic.operators,
                               Len(logic.operators))

\* The value of an operand, and of the chain read from left to right with
\* and and or at one level
OperandValue(operand, env) ==
    IF operand.Not THEN ~env[operand.primaryExpression]
    ELSE env[operand.primaryExpression]

RECURSIVE SourceValue(_, _, _, _)
SourceValue(operands, operators, n, env) ==
    IF n = 0 THEN OperandValue(operands[1], env)
    ELSE IF operators[n] = "and"
    THEN /\ SourceValue(operands, operators, n - 1, env)
         /\ OperandValue(operands[n + 1], env)
    ELSE \/ SourceValue(operands, operators, n - 1, env)
         \/ OperandValue(operands[n + 1], env)

\* C17: the emitted text, read with the precedence of JavaScript, has the
\* truth value of the source expression read from left to right, for every
\* binding of the operands.
C17_EmittedTextKeepsTruthValue ==
    logic.pc = "evaluated" =>
        logic.value = SourceValue(logic.operands, logic.operators,
                                  Len(logic.operators), logic.env)

\* ---------------------------------------------------------------------------
\* Runtime type validation (runtime.js, PromptRuntime.validateType).
\*
\* JavaScript values are records tagged with their kind; an object carries its
\* own properties, an array its items and its own extra properties.  Properties
\* every object inherits from Object.prototype are visible to the `in` operator
\* and to a property read although they are not own properties.

Num(n) == [kind |-> "number", value |-> n]
Str(t) == [kind |-> "string", text |-> t]
Null == [kind |-> "null"]
Fn(name) == [kind |-> "function", name |-> name]
Obj(props) == [kind |-> "object", props |-> props]
Arr(items) == [kind |-> "array", items |-> items, props |-> <<>>]

\* Names every object inherits (Object.prototype), as far as the schemas of
\* the model mention them.
ObjectPrototype == {"constructor"}

\* typeof data
typeof(data) ==
    IF data = undefined THEN "undefined"
    ELSE IF data.kind \in {"null", "array"} THEN "object"
    ELSE data.kind

\* Array.isArray(data)
isArray(data) == data # undefined /\ data.kind = "array"

\* Object.keys-like: the own, non-index property names of an object or array.
own(data) == DOMAIN data.props

\* propName in data
in(propName, data) == propName \in own(data) \cup ObjectPrototype

\* data[propName]
get(data, propName) ==
    IF propName \in own(data) THEN data.props[propName]
    ELSE IF propName \in ObjectPrototype THEN Fn(propName)
    ELSE undefined

\* data[propName] = value
set(data, propName, value) ==
    [data EXCEPT !.props = MapSet(@, propName, value)]

\* Type and TypeObject nodes, as the prompt import hands them to the runtime.
Type(name, genericType) ==
    [type |-> "Type", name |-> Identifier(name), genericType |-> genericType]
TypeObject(properties) == [type |-> "TypeObject", properties |-> properties]
TypeProperty(key, value) == [key |-> Identifier(key), value |-> value]

\* The two ways validateType ends: it returns a value or throws a TypeError.
Valid(value) == [ok |-> TRUE, value |-> value]
TypeError(message) == [ok |-> FALSE, error |-> message]

RECURSIVE validateType(_, _)
RECURSIVE validateProperties(_, _, _)
RECURSIVE validateItems(_, _)

\* data[propName] = this.validateType(data[propName], prop.value), then the
\* rest of the loop; a throw of the inner call ends the loop.
assignValidated(data, type, k, inner) ==
    IF ~inner.ok THEN inner
    ELSE validateProperties(
             set(data, type.properties[k].key.name, inner.value), type, k + 1)

\* for (const prop of type.properties), from the k-th property on.
validateProperties(data, type, k) ==
    IF k > Len(type.properties) THEN Valid(data)
    ELSE IF ~in(type.properties[k].key.name, data)
    THEN TypeError(<<"Missing required property", type.properties[k].key.name>>)
    ELSE assignValidated(data, type, k,
             validateType(get(data, type.properties[k].key.name),
                          type.properties[k].value))

\* The results of the items already mapped, followed by the rest.
mapped(head, rest) ==
    IF ~head.ok THEN head
    ELSE IF ~rest.ok THEN rest
    ELSE Valid(<<head.value>> \o rest.value)

\* data.map(item => this.validateType(item, type.genericType))
validateItems(items, genericType) ==
    IF items = <<>> THEN Valid(<<>>)
    ELSE IF ~validateType(Head(items), genericType).ok
    THEN validateType(Head(items), genericType)
    ELSE mapped(validateType(Head(items), genericType),
                validateItems(Tail(items), genericType))

\* map returns a new array of the mapped items.
newArray(items) == IF items.ok THEN Valid(Arr(items.value)) ELSE items

validateType(data, type) ==
    IF type = undefined THEN Valid(data)
    ELSE IF type.type = "TypeObject"
    THEN IF typeof(data) # "object" \/ data = Null
         THEN TypeError(<<"Expected object, got", typeof(data)>>)
         ELSE validateProperties(data, type, 1)
    ELSE IF type.name.name = "list" /\ type.genericType # undefined
    THEN IF ~isArray(data)
         THEN TypeError(<<"Expected array, got", typeof(data)>>)
         ELSE newArray(validateItems(data.items, type.genericType))
    ELSE Valid(data)

\* Bounds of the validated data: items of an array, and the scalar values.
MaxItems == 2
Scalars == {Num(1), Str("s"), Null, undefined}

\* The property names of the schemas and of the data.
SchemaNames == {"a", "b", "constructor"}

\* Objects with at most two own properties, each from a pool of values.
Objects(values) ==
    {Obj(<<>>)}
      \cup {Obj(MapSet(<<>>, n, v)) : n \in SchemaNames, v \in values}
      \cup {Obj(MapSet(MapSet(<<>>, "a", v), "b", w)) : v, w \in values}

Arrays(values) ==
    UNION {{Arr(items) : items \in [1..n -> values]} : n \in 0..MaxItems}

FlatValues == Scalars \cup Objects({Num(1)}) \cup Arrays({Num(1), Str("s")})
Values ==
    FlatValues
      \cup Objects({Obj(<<>>), Obj(MapSet(<<>>, "b", Num(1))), Arr(<<Num(1)>>),
                    Arr(<<Str("s")>>)})
      \cup Arrays({Obj(<<>>), Obj(MapSet(<<>>, "a", Num(1))), Num(1)})

NamedTypes ==
    {Type("number", undefined), Type("string", undefined),
     Type("list", undefined), Type("list", Type("number", undefined)),
     Type("map", Type("number", undefined))}
FlatSchemas ==
    {TypeObject(<<>>)}
      \cup {TypeObject(<<TypeProperty(n, t)>>) : n \in SchemaNames, t \in NamedTypes}
      \cup {TypeObject(<<TypeProperty("a", t), TypeProperty("b", u)>>) :
              t, u \in NamedTypes}
Schemas ==
    {undefined} \cup NamedTypes \cup FlatSchemas
      \cup {TypeObject(<<TypeProperty("a", TypeObject(<<TypeProperty("b", t)>>))>>) :
              t \in NamedTypes}
      \cup {Type("list", t) :
              t \in {TypeObject(<<TypeProperty("a", Type("number", undefined))>>),
                     Type("list", Type("number", undefined))}}

\* validateType is called with one value and one schema.
CallValidateType(data, type) ==
    /\ validation.pc = "idle"
    /\ validation' =
           [pc |-> "called", data |-> data, schema |-> type,
            result |-> undefined]
    /\ UNCHANGED <<generatorVars, compiler, lexer, parser, logic, runtime,
                   expression>>

\* The call returns or throws.
EndValidateType ==
    /\ validation.pc = "called"
    /\ validation' =
           [validation EXCEPT
              !.pc = "ended",
              !.result = validateType(validation.data, validation.schema)]
    /\ UNCHANGED <<generatorVars, compiler, lexer, parser, logic, runtime,
                   expression>>

\* The caller is done with the result.
ForgetValidation ==
    /\ validation.pc = "ended"
    /\ validation' = NoValidation
    /\ UNCHANGED <<generatorVars, compiler, lexer, parser, logic, runtime,
                   expression>>

NextValidate ==
    \/ \E data \in Values, type \in Schemas : CallValidateType(data, type)
    \/ EndValidateType
    \/ ForgetValidation

SpecValidate == Init /\ [][NextValidate]_vars

\* The recursive rule of validity: what a schema demands of a value.
RECURSIVE satisfies(_, _)
satisfies(data, type) ==
    IF type = undefined THEN TRUE
    ELSE IF type.type = "TypeObject"
    THEN /\ typeof(data) = "object"
         /\ data # Null
         /\ \A k \in 1..Len(type.properties) :
              /\ type.properties[k].key.name \in own(data)
              /\ satisfies(data.props[type.properties[k].key.name],
                           type.properties[k].value)
    ELSE IF type.name.name = "list" /\ type.genericType # undefined
    THEN /\ isArray(data)
         /\ \A k \in 1..Len(data.items) :
              satisfies(data.items[k], type.genericType)
    ELSE TRUE

\* The declared properties an object lacks.
Missing(data, type) ==
    {type.properties[k].key.name : k \in 1..Len(type.properties)} \ own(data)

\* The declared properties an object has all satisfy their types.
PresentSatisfy(data, type) ==
    \A k \in 1..Len(type.properties) :
        type.properties[k].key.name \in own(data) =>
            satisfies(data.props[type.properties[k].key.name],
                      type.properties[k].value)

\* C18: validateType returns normally exactly when the value satisfies the
\* schema under the recursive rule (an object schema wants a non-null object
\* that has every declared property with a satisfying value, list<T> wants an
\* array of satisfying items, every other type name accepts any value); the
\* value it returns has the content of the input; and an object whose only
\* defect is a missing declared property makes it throw the missing-property
\* error that names such a property.
C18_ValidateTypeFollowsRecursiveRule ==
    validation.pc = "ended" =>
        /\ validation.result.ok <=> satisfies(validation.data, validation.schema)
        /\ validation.result.ok => validation.result.value = validation.data
        /\ ( /\ validation.schema # undefined
             /\ validation.schema.type = "TypeObject"
             /\ typeof(validation.data) = "object"
             /\ validation.data # Null
             /\ Missing(validation.data, validation.schema) # {}
             /\ PresentSatisfy(validation.data, validation.schema) )
           => /\ ~validation.result.ok
              /\ validation.result.error[1] = "Missing required property"
              /\ validation.result.error[2]
                     \in Missing(validation.data, validation.schema)

\* ---------------------------------------------------------------------------
\* Execution of the emitted program: the prompt function of a prompt import
\* (generatePromptImport) and the failure boundary of a flow
\* (generateFlowDefinition), run on a call stack of flows.

\* A JavaScript Error object.
Err(name, text) == [kind |-> "error", name |-> name, message |-> text]

\* `${error.message}` in the template string of the catch block: a value
\* that is no Error object has no message.
messageText(error) ==
    IF error.kind = "error" THEN error.message ELSE <<"undefined">>

\* console.error(`Error in flow ${name}: ${error.message}`)
errorLine(name, error) == <<"Error in flow", name, ":">> \o messageText(error)

\* Bounds: the depth of nested flow calls and the prompt calls of one run.
MaxChain == 3
MaxCalls == 2

\* The flows of the chain, outermost first: each calls the next.
FlowNames == <<"Main", "A", "B", "C", "D", "E">>

\* The values a statement of a flow body can raise: runtime errors are Error
\* objects, a function of an imported module can throw any value.
Raisable == {Err("Error", <<"boom">>), Str("s"), Null, undefined}

\* The declared input schemas of the imported prompts and their arguments.
InputTypes ==
    {TypeObject(<<>>),
     TypeObject(<<TypeProperty("a", Type("number", undefined))>>),
     TypeObject(<<TypeProperty("a", Type("list", Type("number", undefined)))>>)}
Inputs ==
    {Obj(<<>>), Obj(MapSet(<<>>, "a", Num(1))), Obj(MapSet(<<>>, "b", Num(1))),
     Obj(MapSet(<<>>, "a", Arr(<<Num(1)>>))), Str("s"), Null}

\* await name(...): the flow is entered, its try block begins.
callFlow(rt, name) == [rt EXCEPT !.pc = "body", !.stack = Append(@, name)]

\* The flow is left, normally or by a throw: its caller goes on, and the
\* outermost caller receives the outcome.
leave(rt, pc, outcome) ==
    IF Len(rt.stack) = 1
    THEN [rt EXCEPT !.pc = "done", !.stack = <<>>, !.outcome = outcome]
    ELSE [rt EXCEPT !.pc = pc, !.stack = SubSeq(@, 1, Len(@) - 1)]

\* The end of the try block is reached.
returnFlow(rt) == leave(rt, "body", NoError)

\* An error value is raised inside the try block of the running flow.
raise(rt, error) ==
    [rt EXCEPT !.pc = "raised", !.raised = Thrown(error),
               !.origin = Thrown(error), !.depth = Len(rt.stack)]

\* await P(input): the prompt function is entered.
promptFunction(rt, input, inputType) ==
    [rt EXCEPT !.pc = "validate", !.input = input, !.inputType = inputType,
               !.validated = undefined, !.called = FALSE]

\* A mutant of validated: the result of validateType is ignored.
validatedUnchecked(rt, result) ==
    [rt EXCEPT !.pc = "callPrompt", !.validated = Valid(rt.input)]

\* const validatedInput = _promptRuntime.validateType(input, inputType): a
\* throw rejects the promise of the prompt function, and the await of the
\* calling flow raises it.
validated(rt, result) ==
    IF result.ok
    THEN [rt EXCEPT !.pc = "callPrompt", !.validated = result]
    ELSE raise([rt EXCEPT !.validated = result],
               Err("TypeError", result.error))

validateStep(rt) == validated(rt, validateType(rt.input, rt.inputType))

\* _promptRuntime.callPrompt(name, path, validatedInput, returnType)
callPromptStep(rt) ==
    [rt EXCEPT !.pc = "prompting", !.called = TRUE,
               !.calls = Append(@, rt.validated.value)]

\* callPrompt returns the answer; the prompt function returns it.
promptReturns(rt) == [rt EXCEPT !.pc = "body"]

\* callPrompt throws: the request or the template failed.
promptFails(rt) == raise(rt, Err("Error", <<"Failed to call prompt">>))

\* catch (error) { console.error(...error.message...); throw error; }: the
\* read of error.message itself throws a TypeError when error is null or
\* undefined, before anything is logged.
flowCatch(rt) ==
    IF rt.raised.error \in {Null, undefined}
    THEN leave([rt EXCEPT !.raised =
                    Thrown(Err("TypeError", <<"Cannot read properties">>))],
               "raised",
               Thrown(Err("TypeError", <<"Cannot read properties">>)))
    ELSE leave([rt EXCEPT !.log =
                    Append(@, errorLine(rt.stack[Len(rt.stack)],
                                        rt.raised.error))],
               "raised", rt.raised)

RuntimeStep(next) ==
    /\ runtime' = next
    /\ UNCHANGED <<generatorVars, compiler, lexer, parser, logic, validation,
                   expression>>

\* The outermost caller calls the first flow.
StartFlow ==
    /\ runtime.pc = "idle"
    /\ RuntimeStep(callFlow(runtime, FlowNames[1]))

\* A statement of the body calls the next flow.
CallFlow ==
    /\ runtime.pc = "body"
    /\ Len(runtime.stack) < MaxChain
    /\ RuntimeStep(callFlow(runtime, FlowNames[Len(runtime.stack) + 1]))

\* A statement of the body calls an imported prompt.
CallPromptFunction(input, inputType) ==
    /\ runtime.pc = "body"
    /\ Len(runtime.calls) < MaxCalls
    /\ RuntimeStep(promptFunction(runtime, input, inputType))

ValidateInput ==
    /\ runtime.pc = "validate"
    /\ RuntimeStep(validateStep(runtime))

CallPrompt ==
    /\ runtime.pc = "callPrompt"
    /\ RuntimeStep(callPromptStep(runtime))

PromptReturns ==
    /\ runtime.pc = "prompting"
    /\ RuntimeStep(promptReturns(runtime))

PromptFails ==
    /\ runtime.pc = "prompting"
    /\ RuntimeStep(promptFails(runtime))

\* A statement of the body raises an error value.
Raise(error) ==
    /\ runtime.pc = "body"
    /\ RuntimeStep(raise(runtime, error))

\* The catch block of the running flow.
CatchError ==
    /\ runtime.pc = "raised"
    /\ RuntimeStep(flowCatch(runtime))

ReturnFlow ==
    /\ runtime.pc = "body"
    /\ RuntimeStep(returnFlow(runtime))

\* The run is over.
EndRun ==
    /\ runtime.pc = "done"
    /\ RuntimeStep(NoRuntime)

NextRuntime ==
    \/ StartFlow
    \/ CallFlow
    \/ \E input \in Inputs, inputType \in InputTypes :
          CallPromptFunction(input, inputType)
    \/ ValidateInput
    \/ CallPrompt
    \/ PromptReturns
    \/ PromptFails
    \/ \E error \in Raisable : Raise(error)
    \/ CatchError
    \/ ReturnFlow
    \/ EndRun

SpecRuntime == Init /\ [][NextRuntime]_vars

\* An invocation of the prompt function has run validateType.
Validated == runtime.validated # undefined

\* C19: an invocation of the prompt function calls callPrompt only after
\* validateType returned for its argument, and passes the value validateType
\* returned; when validateType throws, callPrompt is not called for that
\* invocation and the TypeError is raised in the calling flow.
C19_ValidateBeforeCallPrompt ==
    /\ runtime.called =>
         /\ Validated
         /\ runtime.validated = validateType(runtime.input, runtime.inputType)
         /\ runtime.validated.ok
         /\ runtime.calls[Len(runtime.calls)] = runtime.validated.value
    /\ (Validated /\ ~validateType(runtime.input, runtime.inputType).ok) =>
         /\ ~runtime.called
         /\ runtime.pc \in {"raised", "done"}
         /\ runtime.origin =
                Thrown(Err("TypeError",
                           validateType(runtime.input, runtime.inputType).error))

\* A prompt function whose validation threw has handed the error to the flow
\* that called it, and callPrompt was not reached.
C19_Witness ==
    /\ runtime.pc = "raised"
    /\ Validated
    /\ ~runtime.validated.ok
    /\ runtime.raised.error.name = "TypeError"
    /\ runtime.calls = <<>>

\* The lines the flows between two depths of the chain log for an error,
\* innermost first.
RECURSIVE linesFrom(_, _, _)
linesFrom(depth, above, error) ==
    IF depth <= above THEN <<>>
    ELSE <<errorLine(FlowNames[depth], error)>>
             \o linesFrom(depth - 1, above, error)

\* C20: once a statement of a flow body has raised an error, every flow on
\* the chain that has been left so far has logged exactly one line, with its
\* own name and the message of that error, the error in flight is still the
\* value that was raised, no flow goes on with its body, and the outermost
\* caller receives the same value.
C20_ErrorReachesCallerUnchanged ==
    runtime.origin.thrown =>
        /\ runtime.pc \in {"raised", "done"}
        /\ runtime.raised = runtime.origin
        /\ runtime.log =
               linesFrom(runtime.depth, Len(runtime.stack), runtime.origin.error)
        /\ runtime.pc = "done" => runtime.outcome = runtime.origin

(***************************************************************************)
(* Name collisions among the top-level declarations.                        *)
(***************************************************************************)
\* The entries of a program body that declare a flow or a prompt import
Declares(node) ==
    \/ node.type = "FlowDefinition"
    \/ node.type = "ImportStatement" /\ node.importType = "prompt"

DeclaredName(node) ==
    IF node.type = "FlowDefinition" THEN node.name.name
    ELSE node.promptImport.name.name

\* Two declarations of the program have one name
Collides(ast) ==
    \E i, j \in 1..Len(ast.body) :
        /\ i < j
        /\ Declares(ast.body[i])
        /\ Declares(ast.body[j])
        /\ DeclaredName(ast.body[i]) = DeclaredName(ast.body[j])

\* C21: generate fails for a program in which two flows, two prompt imports
\* or a flow and a prompt import have the same name.
C21_NameCollisionFailsGeneration ==
    (frame.pc = "done" /\ Collides(frame.ast)) => ~frame.result.ok

(***************************************************************************)
(* generate called with a Program whose body is in any order: the caller    *)
(* builds the Program itself and does not go through transform.             *)
(***************************************************************************)
\* The flow G with one statement, the flow F and the prompt import P
CallerBodies ==
    {Assignment("r", FunctionCall("P", <<>>)),
     Assignment("r", FunctionCall("F", <<ObjectLiteral(<<yq, x5>>)>>)),
     ExpressionStatement(FunctionCall("P", <<ObjectLiteral(<<x5>>)>>)),
     IfStatement(Identifier("x"),
         <<ReturnStatement(FunctionCall("F", <<Identifier("x"),
                                               NumberLiteral(2)>>))>>),
     ExpressionStatement(FunctionCall("print", <<Identifier("x")>>))}

\* The three declarations in every order
Orders(caller) ==
    {<<promptP, FlowDefinition("F", <<"x", "y">>, <<>>), caller>>,
     <<promptP, caller, FlowDefinition("F", <<"x", "y">>, <<>>)>>,
     <<caller, promptP, FlowDefinition("F", <<"x", "y">>, <<>>)>>,
     <<caller, FlowDefinition("F", <<"x", "y">>, <<>>), promptP>>,
     <<FlowDefinition("F", <<"x", "y">>, <<>>), promptP, caller>>,
     <<FlowDefinition("F", <<"x", "y">>, <<>>), caller, promptP>>}

DirectPrograms ==
    UNION {{Program(body) : body \in Orders(FlowDefinition("G", <<"x">>, <<s>>))} :
              s \in CallerBodies}

\* generator.generate(ast)
GenerateProgram(ast) ==
    /\ frame.pc = "idle"
    /\ runs < MaxRuns
    /\ Becomes(generateBegin(gen, ast))
    /\ runs' = runs + 1
    /\ source' = ast.body
    /\ UNCHANGED otherVars

NextGenerate ==
    \/ \E ast \in DirectPrograms : GenerateProgram(ast)
    \/ CollectDefinedFlows
    \/ GenerateImportStatement
    \/ GenerateFlowDefinition
    \/ GenerateStatement
    \/ BeginBlock
    \/ EndBlock
    \/ EndFlowDefinition
    \/ Epilogue
    \/ Return

SpecGenerate == Init /\ [][NextGenerate]_vars

\* Every declared flow is registered with a parameter list it is declared
\* with
FlowsRegistered ==
    \A F \in DeclaredFlows(frame.ast) :
        /\ F \in gen.definedFlows
        /\ F \in DOMAIN gen.flowParameters
        /\ gen.flowParameters[F] \in ParameterLists(frame.ast, F)

\* Every declared prompt import is registered
PromptsRegistered ==
    DeclaredPrompts(frame.ast) \subseteq DOMAIN gen.importedPrompts

\* C22: while the statements of a flow body are generated, every flow the
\* program declares is registered with its parameter list and every prompt
\* import it declares is registered, wherever they stand in the body, and so
\* an emitted call is awaited exactly when its callee is declared.
C22_RegistriesCompleteBeforeStatements ==
    frame.pc = "flow" =>
        /\ FlowsRegistered
        /\ PromptsRegistered
        /\ \A e \in Emissions :
              (e.code[1] = "await")
                  <=> e.call.callee.name \in DeclaredPrompts(frame.ast)
                                               \cup DeclaredFlows(frame.ast)

\* The part of C22 that is about flows alone.
FlowRegistryComplete ==
    frame.pc = "flow" =>
        /\ FlowsRegistered
        /\ \A e \in Emissions :
              e.call.callee.name \in DeclaredFlows(frame.ast)
                  => e.code[1] = "await"

(***************************************************************************)
(* Expressions: the rules of the parser from expression down, on a          *)
(* sequence of token images, and the transformer on their parse trees.      *)
(* A parse tree node holds its children under one key per rule or token,    *)
(* each key a list in source order.  An expression is one notExpression:    *)
(* chains of and and or are the subject of the logical expressions above.   *)
(***************************************************************************)
IdentifierImages ==
    {"a", "b", "c", "d", "e", "F", "x", "y", "result", "confidence"}

NumberImages == {"0", "1", "2", "3", "4", "5", "6", "7", "8", "9"}

\* Number(image)
Number(image) == CHOOSE n \in 0..9 : NumberToString(n) = image

\* The token type of a comparison operator
OperatorToken(image) ==
    CASE image = "==" -> "DoubleEquals"
      [] image = "!=" -> "NotEquals"
      [] image = "<=" -> "LessThanEquals"
      [] image = ">=" -> "GreaterThanEquals"
      [] image = "<" -> "LessThan"
      [] image = ">" -> "GreaterThan"
      [] OTHER -> "none"

ComparisonImages == {"==", "!=", "<=", ">=", "<", ">"}

\* A rule has consumed a prefix of the tokens, or has met a token it cannot
\* take
Rejected == [ok |-> FALSE, cst |-> undefined, rest |-> <<>>]

Accepted(cst, rest) == [ok |-> TRUE, cst |-> cst, rest |-> rest]

After(tokens, n) == SubSeq(tokens, n + 1, Len(tokens))

PrimaryCst(child, node) == [child |-> child, node |-> node]

FunctionCallCst(name, args) == [Identifier |-> <<name>>, argumentList |-> args]

ListCst(expressions) == [expression |-> expressions]

EmptyObjectCst ==
    [propertyName |-> <<>>, expression |-> <<>>, shorthandProperty |-> <<>>]

DotAccessCst(name, paren, args) ==
    [Identifier |-> <<name>>, LParen |-> paren, argumentList |-> args,
     dotAccess |-> <<>>]

ComparisonCst(primaries, operator, dot) ==
    [primaryExpression |-> primaries, operator |-> operator, dotAccess |-> dot]

RECURSIVE parseExpression(_)
RECURSIVE parseExpressions(_, _)
RECURSIVE parseProperties(_, _)
RECURSIVE parseDotAccess(_)

\* AT_LEAST_ONE_SEP({SEP: Comma, DEF: expression}), one expression parsed
moreExpressions(r, done) ==
    IF ~r.ok THEN Rejected
    ELSE IF LA(r.rest, 1) = ","
    THEN parseExpressions(Tail(r.rest), Append(done, r.cst))
    ELSE Accepted(ListCst(Append(done, r.cst)), r.rest)

parseExpressions(tokens, done) == moreExpressions(parseExpression(tokens), done)

\* The closing token of a bracketed list
closed(r, closing) ==
    IF r.ok /\ LA(r.rest, 1) = closing THEN Accepted(r.cst, Tail(r.rest))
    ELSE Rejected

\* A parse tree wrapped by the rule that called for it
wrapped(r, cst) == IF r.ok THEN Accepted(cst, r.rest) ELSE Rejected

\* functionCall: Identifier LParen OPTION(argumentList) RParen
closeFunctionCall(name, r) ==
    wrapped(r, FunctionCallCst(name, <<r.cst>>))

parseFunctionCall(tokens) ==
    IF LA(tokens, 3) = ")"
    THEN Accepted(FunctionCallCst(tokens[1], <<>>), After(tokens, 3))
    ELSE closeFunctionCall(tokens[1],
             closed(parseExpressions(After(tokens, 2), <<>>), ")"))

\* arrayLiteral: LBracket OPTION(AT_LEAST_ONE_SEP(expression)) RBracket
parseArrayLiteral(tokens) ==
    IF LA(tokens, 2) = "]" THEN Accepted(ListCst(<<>>), After(tokens, 2))
    ELSE closed(parseExpressions(Tail(tokens), <<>>), "]")

\* objectLiteral, after one property
afterProperty(tokens, cst) ==
    IF LA(tokens, 1) = "," THEN parseProperties(Tail(tokens), cst)
    ELSE IF LA(tokens, 1) = "}" THEN Accepted(cst, Tail(tokens))
    ELSE Rejected

\* The value of a key: value property is parsed
afterValue(r, cst) ==
    IF ~r.ok THEN Rejected
    ELSE afterProperty(r.rest, [cst EXCEPT !.expression = Append(@, r.cst)])

\* objectLiteral, the OR of its loop: Identifier Colon expression under the
\* label propertyName, or Identifier under the label shorthandProperty
parseProperties(tokens, cst) ==
    IF LA(tokens, 1) \in IdentifierImages /\ LA(tokens, 2) = ":"
    THEN afterValue(parseExpression(After(tokens, 2)),
                    [cst EXCEPT !.propertyName = Append(@, tokens[1])])
    ELSE IF LA(tokens, 1) \in IdentifierImages
    THEN afterProperty(Tail(tokens),
             [cst EXCEPT !.shorthandProperty = Append(@, tokens[1])])
    ELSE Rejected

parseObjectLiteral(tokens) ==
    IF LA(tokens, 2) = "}" THEN Accepted(EmptyObjectCst, After(tokens, 2))
    ELSE parseProperties(Tail(tokens), EmptyObjectCst)

\* primaryExpression: the first alternative that fits the tokens ahead
primary(child, r) == wrapped(r, PrimaryCst(child, r.cst))

parsePrimaryExpression(tokens) ==
    CASE LA(tokens, 1) \in IdentifierImages /\ LA(tokens, 2) = "(" ->
             primary("functionCall", parseFunctionCall(tokens))
      [] LA(tokens, 1) = "{" ->
             primary("objectLiteral", parseObjectLiteral(tokens))
      [] LA(tokens, 1) = "[" ->
             primary("arrayLiteral", parseArrayLiteral(tokens))
      [] LA(tokens, 1) \in NumberImages ->
             Accepted(PrimaryCst("NumberLiteral", tokens[1]), Tail(tokens))
      [] LA(tokens, 1) \in IdentifierImages ->
             Accepted(PrimaryCst("Identifier", tokens[1]), Tail(tokens))
      [] OTHER -> Rejected

\* dotAccess, OPTION3: a further dotAccess when a Dot is ahead
nestedDotAccess(r, cst) ==
    wrapped(r, [cst EXCEPT !.dotAccess = <<r.cst>>])

afterLink(cst, tokens) ==
    IF LA(tokens, 1) = "." THEN nestedDotAccess(parseDotAccess(tokens), cst)
    ELSE Accepted(cst, tokens)

\* dotAccess, the argument list of a method call is parsed
afterArguments(name, r) ==
    IF ~r.ok THEN Rejected
    ELSE afterLink(DotAccessCst(name, TRUE, <<r.cst>>), r.rest)

\* dotAccess: Dot Identifier OPTION(LParen OPTION2(argumentList) RParen)
\* OPTION3(dotAccess)
parseDotAccess(tokens) ==
    IF LA(tokens, 2) \notin IdentifierImages THEN Rejected
    ELSE IF LA(tokens, 3) # "("
    THEN afterLink(DotAccessCst(tokens[2], FALSE, <<>>), After(tokens, 2))
    ELSE IF LA(tokens, 4) = ")"
    THEN afterLink(DotAccessCst(tokens[2], TRUE, <<>>), After(tokens, 4))
    ELSE afterArguments(tokens[2],
             closed(parseExpressions(After(tokens, 3), <<>>), ")"))

\* comparisonExpression, the second operand of a comparison is parsed
rightOperand(left, operator, r) ==
    wrapped(r, ComparisonCst(<<left, r.cst>>, OperatorToken(operator), <<>>))

withDotAccess(left, r) ==
    wrapped(r, ComparisonCst(<<left>>, "none", <<r.cst>>))

\* comparisonExpression: primaryExpression, then OPTION(OR(...)): one of the
\* six comparison operators with a second primaryExpression, or a dotAccess
afterPrimary(p) ==
    IF ~p.ok THEN Rejected
    ELSE IF LA(p.rest, 1) \in ComparisonImages
    THEN rightOperand(p.cst, p.rest[1], parsePrimaryExpression(Tail(p.rest)))
    ELSE IF LA(p.rest, 1) = "."
    THEN withDotAccess(p.cst, parseDotAccess(p.rest))
    ELSE Accepted(ComparisonCst(<<p.cst>>, "none", <<>>), p.rest)

parseComparisonExpression(tokens) ==
    afterPrimary(parsePrimaryExpression(tokens))

\* notExpression: Not comparisonExpression, or comparisonExpression
notExpression(not, r) ==
    wrapped(r, [Not |-> not, comparisonExpression |-> <<r.cst>>])

parseExpression(tokens) ==
    IF LA(tokens, 1) = "not"
    THEN notExpression(TRUE, parseComparisonExpression(Tail(tokens)))
    ELSE notExpression(FALSE, parseComparisonExpression(tokens))

(***************************************************************************)
(* The transformer on the parse trees of expressions.                       *)
(***************************************************************************)
RECURSIVE transformExpression(_)
RECURSIVE transformDotAccess(_, _)

\* transformArgumentList(cst): children.expression.map(transformExpression)
transformArgumentList(cst) ==
    [i \in 1..Len(cst.expression) |-> transformExpression(cst.expression[i])]

\* transformFunctionCall(cst)
transformFunctionCall(cst) ==
    FunctionCall(cst.Identifier[1],
                 IF cst.argumentList = <<>> THEN <<>>
                 ELSE transformArgumentList(cst.argumentList[1]))

\* transformObjectLiteral(cst): the key: value properties are pushed first,
\* the shorthand properties after them
transformObjectLiteral(cst) ==
    ObjectLiteral(
        [i \in 1..Len(cst.propertyName) |->
            Property(cst.propertyName[i],
                     transformExpression(cst.expression[i]))]
        \o [i \in 1..Len(cst.shorthandProperty) |->
            ShorthandProperty(cst.shorthandProperty[i])])

\* transformArrayLiteral(cst)
transformArrayLiteral(cst) == ArrayLiteral(transformArgumentList(cst))

\* transformPrimaryExpression(cst)
transformPrimaryExpression(cst) ==
    CASE cst.child = "functionCall" -> transformFunctionCall(cst.node)
      [] cst.child = "objectLiteral" -> transformObjectLiteral(cst.node)
      [] cst.child = "arrayLiteral" -> transformArrayLiteral(cst.node)
      [] cst.child = "NumberLiteral" -> NumberLiteral(Number(cst.node))
      [] cst.child = "Identifier" -> Identifier(cst.node)

\* transformDotAccess, the node of one link: a MethodCall when the link has
\* an LParen, a MemberExpression otherwise
linkNode(object, cst) ==
    IF cst.LParen
    THEN MethodCall(object, cst.Identifier[1],
                    IF cst.argumentList = <<>> THEN <<>>
                    ELSE transformArgumentList(cst.argumentList[1]))
    ELSE MemberExpression(object, cst.Identifier[1])

\* transformDotAccess with the links after the first applied before it
transformDotAccessInnerLast(object, cst) ==
    IF cst.dotAccess = <<>> THEN linkNode(object, cst)
    ELSE linkNode(transformDotAccess(object, cst.dotAccess[1]), cst)

\* transformDotAccess(object, cst): the node of this link is the object of
\* the links that follow it
transformDotAccess(object, cst) ==
    IF cst.dotAccess = <<>> THEN linkNode(object, cst)
    ELSE transformDotAccess(linkNode(object, cst), cst.dotAccess[1])

\* The operator of a ComparisonExpression, by the token found among the
\* children
OperatorOf(token) ==
    CASE token = "DoubleEquals" -> "=="
      [] token = "NotEquals" -> "!="
      [] token = "LessThanEquals" -> "<="
      [] token = "GreaterThanEquals" -> ">="
      [] token = "LessThan" -> "<"
      [] token = "GreaterThan" -> ">"

\* transformComparisonExpression(cst)
transformComparisonExpression(cst) ==
    IF cst.operator # "none"
    THEN ComparisonExpression(OperatorOf(cst.operator),
             transformPrimaryExpression(cst.primaryExpression[1]),
             transformPrimaryExpression(cst.primaryExpression[2]))
    ELSE IF cst.dotAccess # <<>>
    THEN transformDotAccess(
             transformPrimaryExpression(cst.primaryExpression[1]),
             cst.dotAccess[1])
    ELSE transformPrimaryExpression(cst.primaryExpression[1])

\* transformExpression(cst), on one notExpression: transformNotExpression
transformExpression(cst) ==
    IF cst.Not
    THEN UnaryExpression(
             transformComparisonExpression(cst.comparisonExpression[1]))
    ELSE transformComparisonExpression(cst.comparisonExpression[1])

(***************************************************************************)
(* The expressions compiled: object literals, argument lists and array      *)
(* literals of up to MaxProperties items, dot access chains of up to        *)
(* MaxLinks links, and comparisons with an optional not and an optional     *)
(* link on either operand.  A source is its tokens together with the form   *)
(* in which it was written.                                                 *)
(***************************************************************************)
MaxProperties == 3

MaxLinks == 3

\* The name and the value written at each position of a list
NameAt == <<"a", "b", "c", "d", "e">>

ValueAt == <<"1", "2", "3", "4", "5">>

Item(shorthand, key, value) ==
    [shorthand |-> shorthand, key |-> key, value |-> value]

ItemLists ==
    UNION {[1..n -> BOOLEAN] : n \in 0..MaxProperties}

Items(shape) ==
    [i \in 1..Len(shape) |-> Item(shape[i], NameAt[i], ValueAt[i])]

RECURSIVE Joined(_)
\* Token lists separated by commas
Joined(parts) ==
    IF parts = <<>> THEN <<>>
    ELSE IF Len(parts) = 1 THEN parts[1]
    ELSE parts[1] \o <<",">> \o Joined(Tail(parts))

PropertyTokens(items) ==
    Joined([i \in 1..Len(items) |->
               IF items[i].shorthand THEN <<items[i].key>>
               ELSE <<items[i].key, ":", items[i].value>>])

ElementTokens(items) ==
    Joined([i \in 1..Len(items) |->
               IF items[i].shorthand THEN <<items[i].key>>
               ELSE <<items[i].value>>])

ExpressionSource(form, tokens, written) ==
    [form |-> form, tokens |-> tokens, written |-> written]

ObjectSources ==
    {ExpressionSource("object", <<"{">> \o PropertyTokens(Items(shape))
                                \o <<"}">>, Items(shape)) :
        shape \in ItemLists}

CallSources ==
    {ExpressionSource("call", <<"F", "(">> \o ElementTokens(Items(shape))
                              \o <<")">>, Items(shape)) :
        shape \in ItemLists}

ArraySources ==
    {ExpressionSource("array", <<"[">> \o ElementTokens(Items(shape))
                               \o <<"]">>, Items(shape)) :
        shape \in ItemLists}

\* A link of a chain: .name, .name() or .name(x)
Link(name, call, args) == [name |-> name, call |-> call, args |-> args]

LinkShapes == {"member", "method", "method1"}

LinkOf(shape, i) ==
    Link(NameAt[i], shape # "member",
         IF shape = "method1" THEN <<"x">> ELSE <<>>)

RECURSIVE LinkTokens(_)
LinkTokens(links) ==
    IF links = <<>> THEN <<>>
    ELSE <<".", links[1].name>>
         \o (IF links[1].call THEN <<"(">> \o links[1].args \o <<")">>
             ELSE <<>>)
         \o LinkTokens(Tail(links))

Chains ==
    UNION {{[i \in 1..n |-> LinkOf(shape[i], i)] :
               shape \in [1..n -> LinkShapes]} : n \in 1..MaxLinks}

Heads == {<<"x">>, <<"F", "(", ")">>}

ChainSources ==
    {ExpressionSource("chain", head \o LinkTokens(links),
                      [head |-> head, links |-> links]) :
        head \in Heads, links \in Chains}

\* An operand of a comparison: a name, a number, or a name with one link
ComparisonOperands ==
    {<<"a">>, <<"1">>, <<"result", ".", "confidence">>, <<"b", ".", "c">>}

ComparisonSources ==
    {ExpressionSource("comparison",
         (IF not THEN <<"not">> ELSE <<>>) \o left \o <<op>> \o right,
         [not |-> not, left |-> left, operator |-> op, right |-> right]) :
        not \in BOOLEAN, left \in ComparisonOperands, op \in ComparisonImages,
        right \in ComparisonOperands}

ExpressionSources ==
    ObjectSources \cup CallSources \cup ArraySources \cup ChainSources
        \cup ComparisonSources

(***************************************************************************)
(* Compiling one expression: the parser's expression rule on the tokens,    *)
(* the transformer on the parse tree, generateNode on the AST.  Tokens left *)
(* over by the rule are a parsing error of the rule that called for the     *)
(* expression, and nothing is transformed then.                             *)
(***************************************************************************)
ParseExpression(src) ==
    /\ expression.pc = "idle"
    /\ expression' = [expression EXCEPT !.pc = "parsed", !.source = src,
                          !.parsed = parseExpression(src.tokens),
                          !.ast = undefined, !.js = <<>>]
    /\ UNCHANGED <<generatorVars, compiler, lexer, parser, logic, validation,
                   runtime>>

TransformExpression ==
    /\ expression.pc = "parsed"
    /\ expression.parsed.ok
    /\ expression.parsed.rest = <<>>
    /\ expression' = [expression EXCEPT !.pc = "transformed",
                          !.ast = transformExpression(expression.parsed.cst)]
    /\ UNCHANGED <<generatorVars, compiler, lexer, parser, logic, validation,
                   runtime>>

RejectExpression ==
    /\ expression.pc = "parsed"
    /\ ~(expression.parsed.ok /\ expression.parsed.rest = <<>>)
    /\ expression' = [expression EXCEPT !.pc = "rejected"]
    /\ UNCHANGED <<generatorVars, compiler, lexer, parser, logic, validation,
                   runtime>>

GenerateExpression ==
    /\ expression.pc = "transformed"
    /\ expression' = [expression EXCEPT !.pc = "generated",
                          !.js = generateNode(expression.ast,
                                              NewCodeGenerator).code]
    /\ UNCHANGED <<generatorVars, compiler, lexer, parser, logic, validation,
                   runtime>>

ForgetExpression ==
    /\ expression.pc \in {"generated", "rejected"}
    /\ expression' = NoExpression
    /\ UNCHANGED <<generatorVars, compiler, lexer, parser, logic, validation,
                   runtime>>

NextExpression ==
    \/ \E src \in ExpressionSources : ParseExpression(src)
    \/ TransformExpression
    \/ RejectExpression
    \/ GenerateExpression
    \/ ForgetExpression

SpecExpression == Init /\ [][NextExpression]_vars

\* The expression compiled was written in the given form and has its AST
Transformed(form) ==
    /\ expression.pc \in {"transformed", "generated"}
    /\ expression.source.form = form

\* The names and values of a list of properties, in order
Keys(properties) ==
    [i \in 1..Len(properties) |-> properties[i].key.name]

\* The property written for an item
WrittenProperty(item) ==
    IF item.shorthand THEN ShorthandProperty(item.key)
    ELSE Property(item.key, NumberLiteral(Number(item.value)))

\* The expression written for an element of a list
WrittenElement(item) ==
    IF item.shorthand THEN Identifier(item.key)
    ELSE NumberLiteral(Number(item.value))

\* C23: call arguments, array elements and the properties of an object
\* literal are in the AST in the order written in the source, each property
\* with its own value expression.
C23_OrderAsWritten ==
    /\ Transformed("call") =>
           expression.ast.arguments =
               [i \in 1..Len(expression.source.written) |->
                   WrittenElement(expression.source.written[i])]
    /\ Transformed("array") =>
           expression.ast.elements =
               [i \in 1..Len(expression.source.written) |->
                   WrittenElement(expression.source.written[i])]
    /\ Transformed("object") =>
           expression.ast.properties =
               [i \in 1..Len(expression.source.written) |->
                   WrittenProperty(expression.source.written[i])]

\* Supporting property: arguments and elements keep their order
ListsInOrder ==
    /\ Transformed("call") =>
           expression.ast.arguments =
               [i \in 1..Len(expression.source.written) |->
                   WrittenElement(expression.source.written[i])]
    /\ Transformed("array") =>
           expression.ast.elements =
               [i \in 1..Len(expression.source.written) |->
                   WrittenElement(expression.source.written[i])]

\* The expression written as the head of a chain
WrittenHead(head) ==
    IF Len(head) = 1 THEN Identifier(head[1]) ELSE FunctionCall(head[1], <<>>)

\* The node written by one link, on the object it is applied to
WrittenLink(object, link) ==
    IF link.call
    THEN MethodCall(object, link.name,
                    [i \in 1..Len(link.args) |-> Identifier(link.args[i])])
    ELSE MemberExpression(object, link.name)

RECURSIVE LeftNestedChain(_, _)
\* The left-nested tree of a chain: the last link is the outermost node
LeftNestedChain(head, links) ==
    IF links = <<>> THEN WrittenHead(head)
    ELSE WrittenLink(LeftNestedChain(head, SubSeq(links, 1, Len(links) - 1)),
                     links[Len(links)])

\* C25: a primary expression followed by a chain of n links becomes a
\* left-nested tree of n nodes, the i-th link of the source the i-th node
\* from the innermost; a link with parentheses is a MethodCall with its
\* arguments, any other link a MemberExpression.
C25_ChainIsLeftNested ==
    /\ Transformed("chain") =>
           expression.ast =
               LeftNestedChain(expression.source.written.head,
                               expression.source.written.links)
    /\ expression.pc = "rejected" => expression.source.form # "chain"

\* A chain such as x.a().b.c(x) has been transformed
C25_Witness ==
    /\ Transformed("chain")
    /\ Len(expression.source.written.links) = 3
    /\ expression.source.written.links[1].call
    /\ ~expression.source.written.links[2].call
    /\ expression.source.written.links[3].call
    /\ expression.ast.type = "MethodCall"
    /\ expression.ast.object.type = "MemberExpression"
    /\ expression.ast.object.object.type = "MethodCall"

\* The expression written as an operand of a comparison
WrittenOperand(tokens) ==
    IF Len(tokens) = 3
    THEN MemberExpression(Identifier(tokens[1]), tokens[3])
    ELSE IF tokens[1] \in NumberImages
    THEN NumberLiteral(Number(tokens[1]))
    ELSE Identifier(tokens[1])

\* The comparison written in a source
WrittenComparison(written) ==
    ComparisonExpression(written.operator, WrittenOperand(written.left),
                         WrittenOperand(written.right))

\* A comparison without not has been parsed, and transformed or rejected
Compared ==
    /\ expression.pc \in {"transformed", "generated", "rejected"}
    /\ expression.source.form = "comparison"
    /\ ~expression.source.written.not

\* C27: a comparison whose operands are primaries with or without a dot
\* access chain (result.confidence > 1, a == b.c) is accepted by the grammar
\* and becomes a ComparisonExpression on the folded member chains.
C27_DotAccessBindsTighter ==
    Compared =>
        /\ expression.pc # "rejected"
        /\ expression.ast = WrittenComparison(expression.source.written)

\* Supporting property: comparisons of names and numbers are accepted and
\* become the ComparisonExpression written
PlainComparisonsAccepted ==
    (/\ Compared
     /\ Len(expression.source.written.left) = 1
     /\ Len(expression.source.written.right) = 1) =>
        /\ expression.pc # "rejected"
        /\ expression.ast = WrittenComparison(expression.source.written)

\* The offset of the first comparison operator of a text, 0 when it has none
RECURSIVE comparisonAt(_, _)
comparisonAt(tokens, i) ==
    IF i > Len(tokens) THEN 0
    ELSE IF tokens[i] \in ComparisonImages THEN i
    ELSE comparisonAt(tokens, i + 1)

\* A text read as a JavaScript unary expression: ! applies to the unary
\* expression that follows it
RECURSIVE jsReadUnary(_)
jsReadUnary(tokens) ==
    IF tokens[1] = "!" THEN UnaryExpression(jsReadUnary(Tail(tokens)))
    ELSE WrittenOperand(tokens)

\* A text read as a JavaScript expression: the operands of a comparison
\* operator are unary expressions, ! binding tighter than any comparison
jsRead(tokens) ==
    IF comparisonAt(tokens, 1) = 0 THEN jsReadUnary(tokens)
    ELSE ComparisonExpression(tokens[comparisonAt(tokens, 1)],
             jsReadUnary(SubSeq(tokens, 1, comparisonAt(tokens, 1) - 1)),
             jsReadUnary(SubSeq(tokens, comparisonAt(tokens, 1) + 1,
                                Len(tokens))))

\* The text of a comparison, with or without not, has been generated
GeneratedComparison ==
    /\ expression.pc = "generated"
    /\ expression.source.form = "comparison"

\* C28: the text emitted for a comparison, with or without a not before it,
\* read with JavaScript precedence, is the tree it was generated from: for
\* not a OP b the negation of (a OP b), not the comparison of (not a) with b.
C28_NotNegatesWholeComparison ==
    GeneratedComparison => jsRead(expression.js) = expression.ast

\* Supporting property: the text of a comparison without not reads back as
\* the tree it was generated from
ComparisonReadsBack ==
    (GeneratedComparison /\ ~expression.source.written.not) =>
        jsRead(expression.js) = expression.ast

(***************************************************************************)
(* The emitted text of a statement read as JavaScript: await is a unary     *)
(* operator, and a member access or a call binds tighter than it, so the    *)
(* operand of an await runs over the call that follows it and over every    *)
(* .name and .name(...) after the call.                                     *)
(***************************************************************************)
\* The offset of the parenthesis that closes the one open at depth 1 before
\* offset j
RECURSIVE closing(_, _, _)
closing(code, j, depth) ==
    IF j > Len(code) THEN Len(code)
    ELSE IF code[j] = ")" /\ depth = 1 THEN j
    ELSE IF code[j] = ")" THEN closing(code, j + 1, depth - 1)
    ELSE IF code[j] = "(" THEN closing(code, j + 1, depth + 1)
    ELSE closing(code, j + 1, depth)

\* The last offset of the call expression after the await at offset i: the
\* callee and its parenthesised arguments
callEnd(code, i) == closing(code, i + 3, 1)

\* The last offset of the member expression that begins at or before k and
\* has been read up to k
RECURSIVE memberEnd(_, _)
memberEnd(code, k) ==
    IF LA(code, k + 1) # "." THEN k
    ELSE IF LA(code, k + 3) = "(" THEN memberEnd(code, closing(code, k + 4, 1))
    ELSE memberEnd(code, k + 2)

\* The operand of the await at offset i
awaitOperand(code, i) == SubSeq(code, i + 1, memberEnd(code, callEnd(code, i)))

\* The call expression after the await at offset i
awaitedCall(code, i) == SubSeq(code, i + 1, callEnd(code, i))

Awaits(code) == {i \in 1..Len(code) : code[i] = "await"}

\* The text of a statement has been emitted
StatementEmitted ==
    /\ frame.pc = "flow"
    /\ frame.stmts # <<>>
    /\ frame.last.ok

\* C26: read with JavaScript precedence, the operand of every emitted await
\* is the call expression that follows it, also when the call is the object
\* of a dot access chain (r = F().y, F().m()): never the member expression
\* built on the call that has not been awaited.
C26_AwaitOperandIsTheCall ==
    StatementEmitted =>
        \A i \in Awaits(frame.last.code) :
            awaitOperand(frame.last.code, i) = awaitedCall(frame.last.code, i)

\* Supporting property: in a statement without a dot access on a call, the
\* operand of every emitted await is the call
RECURSIVE ChainsOnCalls(_)
RECURSIVE ChainsOnCallsAll(_)
ChainsOnCallsAll(nodes) ==
    IF nodes = <<>> THEN {}
    ELSE ChainsOnCalls(nodes[1]) \cup ChainsOnCallsAll(Tail(nodes))

\* The member expressions and method calls of a node whose object is a call
ChainsOnCalls(node) ==
    CASE node.type = "FunctionCall" -> ChainsOnCallsAll(node.arguments)
      [] node.type = "MethodCall" ->
             (IF node.object.type = "FunctionCall" THEN {node} ELSE {})
             \cup ChainsOnCalls(node.object)
             \cup ChainsOnCallsAll(node.arguments)
      [] node.type = "MemberExpression" ->
             (IF node.object.type = "FunctionCall" THEN {node} ELSE {})
             \cup ChainsOnCalls(node.object)
      [] node.type = "ObjectLiteral" ->
             UNION {ChainsOnCalls(PropertyValue(p)) :
                       p \in Range(node.properties)}
      [] node.type = "ArrayLiteral" -> ChainsOnCallsAll(node.elements)
      [] node.type \in {"ComparisonExpression", "LogicalExpression"} ->
             ChainsOnCalls(node.left) \cup ChainsOnCalls(node.right)
      [] node.type = "UnaryExpression" -> ChainsOnCalls(node.argument)
      [] node.type \in {"ReturnStatement", "ExpressionStatement"} ->
             ChainsOnCalls(node.expression)
      [] node.type \in {"Assignment", "DestructuringAssignment"} ->
             ChainsOnCalls(node.right)
      [] node.type = "IfStatement" -> ChainsOnCalls(node.condition)
      [] node.type = "ForStatement" -> ChainsOnCalls(node.iterable)
      [] OTHER -> {}

AwaitOperandWithoutChain ==
    (StatementEmitted /\ ChainsOnCalls(LastStatement) = {}) =>
        \A i \in Awaits(frame.last.code) :
            awaitOperand(frame.last.code, i) = awaitedCall(frame.last.code, i)

\* The calls in the text of a statement that the statement does not wait
\* for: the call returns its promise at once, the await applies to a member
\* of the promise, and the callee is still running when the statement ends
unsettledCalls(code) ==
    {i \in Awaits(code) : awaitOperand(code, i) # awaitedCall(code, i)}

\* A statement after which the next statement of the body begins
RunsOn == StatementEmitted /\ LastStatement.type # "ReturnStatement"

\* C24: the body of an emitted flow runs strictly in sequence: every call of
\* a prompt import or a flow in a statement, in any position, is emitted
\* with await and has settled when the statement ends and the next statement
\* of the body begins.
C24_CallsSettleBeforeNextStatement ==
    RunsOn =>
        /\ \A e \in Emissions : isAsyncCall(e.call, gen) => e.code[1] = "await"
        /\ unsettledCalls(frame.last.code) = {}

\* Supporting property: the calls of a statement without a dot access on a
\* call have settled when the statement ends
SettledWithoutChain ==
    (RunsOn /\ ChainsOnCalls(LastStatement) = {}) =>
        /\ \A e \in Emissions : isAsyncCall(e.call, gen) => e.code[1] = "await"
        /\ unsettledCalls(frame.last.code) = {}

(***************************************************************************)
(* The bindings of the emitted text of a flow, read as JavaScript: the      *)
(* function and every block are a scope; let x and const { x } bind x in    *)
(* the scope they stand in, until the block is closed; x = ... at the head  *)
(* of a statement assigns to the innermost binding of x in an open scope.   *)
(***************************************************************************)
Scope(lets, consts) == [lets |-> lets, consts |-> consts]

\* The offset of the last token tok of a text at or before offset i
RECURSIVE lastIndexOf(_, _, _)
lastIndexOf(code, tok, i) ==
    IF i = 0 THEN 0
    ELSE IF code[i] = tok THEN i
    ELSE lastIndexOf(code, tok, i - 1)

\* The brace at offset i opens the body of a function, a try, an if, a for
\* or a while
opensBlock(code, i) == code[i] = "{" /\ code[i - 1] \in {")", "try"}

\* The brace at offset i closes a block: no value stands before it
closesBlock(code, i) ==
    /\ code[i] = "}"
    /\ code[i - 1] \in {";", "{"}
    /\ LA(code, i + 1) \in {";", "EOF"}

\* A statement begins at offset i
statementAt(code, i) ==
    \/ code[i - 1] = ";"
    \/ opensBlock(code, i - 1)

\* x bound in the innermost scope
bind(scopes, x, kind) ==
    IF kind = "let"
    THEN [scopes EXCEPT ![Len(scopes)].lets = @ \cup {x}]
    ELSE [scopes EXCEPT ![Len(scopes)].consts = @ \cup {x}]

\* The names between the braces of const { a, b } = ..., the brace at i
RECURSIVE bindNames(_, _, _)
bindNames(scopes, code, i) ==
    IF code[i] = "}" THEN scopes
    ELSE IF code[i] \in {"{", ","} THEN bindNames(scopes, code, i + 1)
    ELSE bindNames(bind(scopes, code[i], "const"), code, i + 1)

\* x = ... assigns: the innermost open scope that binds x binds it with let
\* or as a parameter
RECURSIVE assignable(_, _)
assignable(scopes, x) ==
    IF scopes = <<>> THEN FALSE
    ELSE IF x \in Top(scopes).consts THEN FALSE
    ELSE IF x \in Top(scopes).lets THEN TRUE
    ELSE assignable(Pop(scopes), x)

\* Every rebind form of the text from offset i on assigns to a binding in
\* scope that is assignable
RECURSIVE rebindsInScope(_, _, _)
rebindsInScope(code, i, scopes) ==
    IF i > Len(code) THEN TRUE
    ELSE IF opensBlock(code, i)
    THEN rebindsInScope(code, i + 1, Append(scopes, Scope({}, {})))
    ELSE IF closesBlock(code, i)
    THEN rebindsInScope(code, i + 1, Pop(scopes))
    ELSE IF statementAt(code, i) /\ code[i] = "let"
    THEN rebindsInScope(code, i + 2, bind(scopes, code[i + 1], "let"))
    ELSE IF statementAt(code, i) /\ code[i] = "const"
    THEN rebindsInScope(code, i + 2, bindNames(scopes, code, i + 1))
    ELSE IF statementAt(code, i) /\ LA(code, i + 1) = "="
    THEN /\ assignable(scopes, code[i])
         /\ rebindsInScope(code, i + 2, scopes)
    ELSE rebindsInScope(code, i + 1, scopes)

\* The text emitted so far for the flow being generated, from the brace
\* that opens its body, with the parameters bound in the function's scope
FlowRebindsInScope ==
    rebindsInScope(frame.code,
        lastIndexOf(frame.code, "try", Len(frame.code)) - 1,
        <<Scope(Range(paramNamesOf(frame.flow)), {})>>)

\* C29: in the emitted text of a flow every rebind form x = ... lies in the
\* block scope of a binding of x emitted earlier (a parameter, a let x or a
\* destructuring) and that binding is assignable: no rebind of a let that
\* was emitted inside an if, for or loop body closed since, none of a name
\* bound by a destructuring const.
C29_RebindsAssignBindingInScope ==
    frame.pc = "flow" => FlowRebindsInScope

\* Supporting property: the rebinds of a flow whose body holds simple
\* assignments only, none inside a block, assign a binding in scope
FlatAssignmentsInScope ==
    (/\ frame.pc = "flow"
     /\ \A stmt \in Range(frame.flow.body) : stmt.type = "Assignment")
        => FlowRebindsInScope

(***************************************************************************)
(* Words of the source text and the tokens the lexer makes of them.         *)
(***************************************************************************)
\* The words of the keyword token types, Import to Not, and of the boolean
\* literals
ReservedWords ==
    {allTokens[k].word : k \in 2..16}
        \cup {<<"t", "r", "u", "e">>, <<"f", "a", "l", "s", "e">>}

\* A maximal run of identifier characters stands at the offsets i to j of
\* the text: it begins with a letter, and no identifier character stands
\* before or after it
WordAt(text, i, j) ==
    /\ text[i] \in Letters
    /\ i = 1 \/ text[i - 1] \notin Letters \cup Digits
    /\ j = i + span(text, i, Letters \cup Digits) - 1

\* The offsets i to j lie inside a string literal token
InString(i, j) ==
    \E k \in 1..Len(lexer.tokens) :
       /\ lexer.tokens[k].name = "StringLiteral"
       /\ lexer.tokens[k].startOffset <= i
       /\ j <= lexer.tokens[k].endOffset

\* C30: every maximal run of identifier characters of the text that is no
\* keyword and no boolean literal is one Identifier token, also when it
\* begins with the letters of a keyword: the keywords have priority on whole
\* words only.
C30_WordsAreSingleIdentifiers ==
    lexer.pc = "done" =>
        \A i \in 1..Len(lexer.text), j \in 1..Len(lexer.text) :
            (/\ WordAt(lexer.text, i, j)
             /\ SubSeq(lexer.text, i, j) \notin ReservedWords
             /\ ~InString(i, j))
            => \E k \in 1..Len(lexer.tokens) :
                  /\ lexer.tokens[k].name = "Identifier"
                  /\ lexer.tokens[k].startOffset = i
                  /\ lexer.tokens[k].endOffset = j

\* Supporting property: a word that does not begin with the letters of a
\* keyword or boolean literal is one Identifier token
BeginsReserved(text, i) ==
    \E word \in ReservedWords : matchWord(text, i, word) > 0

OtherWordsAreSingleIdentifiers ==
    lexer.pc = "done" =>
        \A i \in 1..Len(lexer.text), j \in 1..Len(lexer.text) :
            (/\ WordAt(lexer.text, i, j)
             /\ ~BeginsReserved(lexer.text, i)
             /\ ~InString(i, j))
            => \E k \in 1..Len(lexer.tokens) :
                  /\ lexer.tokens[k].name = "Identifier"
                  /\ lexer.tokens[k].startOffset = i
                  /\ lexer.tokens[k].endOffset = j

====
